---------------------------- MODULE Spec2Model ----------------------------
(***************************************************************************)
(* Cross-border payments: the payment orchestrator (PaymentProcessor),     *)
(* the status writer of PaymentService, and the inbound provider-webhook   *)
(* handlers, over one shared database (payments, payment events,          *)
(* transactions) and the list of events handed to the webhook dispatcher.  *)
(*                                                                         *)
(* Every await of the TypeScript code is a point where another request may *)
(* run, so each action below is the code between two awaits.  The          *)
(* database is taken to answer every query (no connection failure);        *)
(* prisma.$transaction runs at the database's default isolation (READ      *)
(* COMMITTED): the read inside it and its commit are two steps, the        *)
(* writes of one transaction become visible together.                      *)
(***************************************************************************)
EXTENDS Naturals, Sequences, FiniteSets, TLC

\* ------------------------------------------------------------- bounds ---
\* createPayment calls in one behaviour.
MaxCreates == 3
MaxOtherRequests == 2

\* registerWebhookEndpoint calls in one behaviour.
MaxRegistrations == 2

\* processPayment calls (POST /admin/payments/:id/process) in one behaviour.
MaxRuns == 2
\* Inbound provider webhook requests (POST /webhooks/...) in one behaviour.
MaxInbound == 1

Runs == 1..MaxRuns
Inbounds == 1..MaxInbound

\* "p1" is a stored payment, "p2" an id no payment has.
PaymentIds == {"p1", "p2"}
StoredIds == {"p1"}

None == "none"

\* ------------------------------------------------------- program types ---
PaymentStatus == {"PENDING", "PROCESSING", "COMPLETED", "FAILED", "CANCELLED"}

\* The payment events our system sends to subscribers.
PAYMENT_PROCESSING == "payment.processing"
PAYMENT_COMPLETED == "payment.completed"
PAYMENT_FAILED == "payment.failed"

\* Provider events the webhook router handles.
InboundKinds ==
  {"payment_intent.succeeded", "payment_intent.payment_failed",
   "offramp.completed", "offramp.failed"}

\* Outcomes of a provider call: the result object it returns ("ok" with
\* success: true, "fail" with success: false and a reason), or a throw of an
\* Error carrying a message.  The mock providers catch their own errors; the
\* callers also catch, and one throwing outcome is kept for createCharge and
\* for refundCharge to exercise those catches.
ChargeOutcomes ==
  { [kind |-> "ok", error |-> None],
    [kind |-> "fail", error |-> "card_declined"],
    [kind |-> "throw", error |-> "ETIMEDOUT"] }

ConversionOutcomes ==
  { [kind |-> "ok", error |-> None],
    [kind |-> "fail", error |-> "rate_expired"] }

TransferOutcomes ==
  { [kind |-> "ok", error |-> None],
    [kind |-> "fail", error |-> "recipient_bank_rejected"] }

RefundOutcomes ==
  { [kind |-> "ok", error |-> None],
    [kind |-> "fail", error |-> "refund_failed"],
    [kind |-> "throw", error |-> "ETIMEDOUT"] }

\* ---------------------------------------------------------- variables ---
VARIABLES
  payments,       \* table Payment: id -> [status, completedAt, externalReference]
  paymentEvents,  \* table PaymentEvent, in creation order
  transactions,   \* table Transaction
  dispatched,     \* events sendPaymentWebhook built, in order
  pc,             \* per processPayment call: where it stands
  pay,            \* its paymentId argument
  cur,            \* currentPayment.status read inside its open transaction
  steps,          \* its local steps array
  charge,         \* onrampResult.details.chargeId
  result,         \* what it returned, or the error it threw
  atCall,         \* history: the stored status when the call was made
  calls,          \* history: its provider calls and their outcomes, in order
  wrote,          \* history: status and completedAt stored by each of its writes
  rows,           \* history: PaymentEvent and Transaction rows it created
  hpc,            \* per inbound webhook request: where its handler stands
  hreq,           \* its event type and paymentId
  event,          \* the PaymentWebhookEvent sendPaymentWebhook built
  endpoints,      \* the list getMockWebhookEndpoints returned
  loopAt,         \* sendPaymentWebhook: 0 not called, i at endpoint i, past the end returned
  inflight,       \* per endpoint: the axios.post awaiting its response
  timers,         \* setTimeout callbacks not yet run
  attempts,       \* per endpoint: webhook_delivery rows stored, in order
  requests,       \* history: HTTP requests issued, per endpoint, in order
  received,       \* history: what axios.post gave for each, in order
  scheduled,      \* history: retries scheduled, per endpoint, in order
  dbUp,           \* whether prisma calls of the dispatcher succeed
  sendResult,     \* sendPaymentWebhook's promise, and the error its catch logged
  signed,         \* the message a sender signed: payload, secret, timestamp, signature
  verified,       \* a verifySignature call: its arguments, clock and result
  hin,            \* per request to /webhooks/stripe or /offramp: what it carried
  hres,           \* the status its verification middleware answered, if it did
  registered,     \* registerWebhookEndpoint calls: URL, NODE_ENV, what came back
  idempotencyKey, \* column Payment.idempotencyKey (unique): id -> key
  fees,           \* table Fee: paymentId -> number of createMany calls stored
  creates,        \* per createPayment call: position, key, lookup, rows made, result
  ipAttempts,     \* webhookRateLimit's Map attempts: clientIp -> {count, resetTime}
  rateNow,        \* Date.now() at the last request to the webhook router
  rateLast,       \* history: the last request, and what the limiter did with it
  ratePassed,     \* history: per clientIp, requests passed on since an instant
  rateSeen        \* history: requests made by the second client

dbVars == <<payments, paymentEvents, transactions>>
runVars == <<pc, pay, cur, steps, charge, result>>
histVars == <<atCall, calls, wrote, rows>>
inVars == <<hpc, hreq>>
whVars == <<event, endpoints, loopAt, inflight, timers, attempts, requests,
            received, scheduled, dbUp, sendResult>>
sigVars == <<signed, verified>>
gwVars == <<hin, hres>>
regVars == <<registered>>
crVars == <<idempotencyKey, fees, creates>>
rlVars == <<ipAttempts, rateNow, rateLast, ratePassed, rateSeen>>
libVars == <<sigVars, gwVars, regVars, crVars, rlVars>>
vars == <<payments, paymentEvents, transactions, dispatched, pc, pay, cur,
          steps, charge, result, atCall, calls, wrote, rows, hpc, hreq,
          event, endpoints, loopAt, inflight, timers, attempts, requests,
          received, scheduled, dbUp, sendResult, signed, verified, hin,
          hres, registered, idempotencyKey, fees, creates, ipAttempts,
          rateNow, rateLast, ratePassed, rateSeen>>


\* ------------------------------------------------------------ helpers ---
Last(s) == s[Len(s)]

NoCharge == <<>>

\* `ch_${Date.now()}_${random}`: a fresh id for every createCharge call.
ChargeId(r) == <<"ch", r>>

\* A ProcessingStep; its duration (a clock difference) is left out.
Step(name, status, error, chargeId) ==
  [step |-> name, status |-> status, error |-> error, chargeId |-> chargeId]

\* The stored status of payment p, "ABSENT" when there is no such row.
StoredStatus(p) ==
  IF p \in DOMAIN payments THEN payments[p].status ELSE "ABSENT"

\* processPayment's precondition on the row it read.
IsProcessableLax(s) == s \in {"PENDING", "FAILED"}

IsProcessable(s) == s = "PENDING"

\* The error processPayment throws for the row it read.
ValidationError(s) ==
  IF s = "ABSENT" THEN "Payment not found"
  ELSE "Payment status is " \o s \o ", expected PENDING"

\* error instanceof Error ? error.message : fallback
ErrorText(o, fallback) ==
  IF o.kind = "throw" /\ o.error = None THEN fallback ELSE o.error

\* The step record processOnramp returns for createCharge's outcome.
OnrampStep(o, chargeId) ==
  IF o.kind = "ok"
  THEN Step("onramp_stripe", "completed", None, chargeId)
  ELSE Step("onramp_stripe", "failed", ErrorText(o, "Onramp error"), NoCharge)

\* The step record processCurrencyConversion returns.
ConversionStep(o) ==
  IF o.kind = "ok"
  THEN Step("currency_conversion", "completed", None, NoCharge)
  ELSE Step("currency_conversion", "failed",
            ErrorText(o, "Conversion error"), NoCharge)

\* The step record processOfframp returns for createTransfer's outcome.
OfframpStep(o) ==
  IF o.kind = "ok"
  THEN Step("offramp_transfer", "completed", None, NoCharge)
  ELSE Step("offramp_transfer", "failed", ErrorText(o, "Offramp error"),
            NoCharge)

\* Where processPayment goes after a step: on, or to the failure branch,
\* which refunds first when a charge was collected.
AfterOnrampRefund(st) ==
  IF st.status = "failed" THEN "refund" ELSE "conversion"

AfterOnrampAlways(st) == "conversion"

AfterOnramp(st) == IF st.status = "failed" THEN "w_failed" ELSE "conversion"

AfterConversionNoRefund(st) ==
  IF st.status = "failed" THEN "w_failed" ELSE "offramp"

AfterConversion(st) == IF st.status = "failed" THEN "refund" ELSE "offramp"

AfterOfframpRetry(st) ==
  IF st.status = "failed" THEN "offramp" ELSE "w_completed"

AfterOfframp(st) == IF st.status = "failed" THEN "refund" ELSE "w_completed"

\* refundOnramp catches whatever refundCharge throws: nothing propagates.
RefundPropagatesThrow(o) == o.kind = "throw"

RefundPropagates(o) == FALSE

\* The data of tx.payment.update in updatePaymentStatus.
StatusUpdateKeepCompletedAt(row, status) == [row EXCEPT !.status = status]

StatusUpdate(row, status) ==
  [row EXCEPT !.status = status,
              !.completedAt = IF status = "COMPLETED" THEN TRUE ELSE @]

\* StatusChanged with the row always written for the first payment.
StatusChangedFirstPayment(p, old, new) ==
  [paymentId |-> "p1", eventType |-> "status_changed", oldStatus |-> old,
   newStatus |-> new, source |-> "payment_processor"]

\* The status_changed row updatePaymentStatus creates in its transaction.
StatusChanged(p, old, new) ==
  [paymentId |-> p, eventType |-> "status_changed", oldStatus |-> old,
   newStatus |-> new, source |-> "payment_processor"]

\* A row a webhook handler or the processor creates with no status in it.
PlainEvent(p, type, source) ==
  [paymentId |-> p, eventType |-> type, oldStatus |-> None,
   newStatus |-> None, source |-> source]

\* A Transaction row; its generated id is the call and the provider.
TransactionRow(p, provider, ext, r) ==
  [id |-> <<r, provider>>, paymentId |-> p, type |-> "PAYMENT",
   providerId |-> provider, externalTxId |-> ext]

\* The status a pending status write stores, by the place of the call.
Target(l) ==
  CASE l \in {"w_processing", "tx_processing"} -> "PROCESSING"
    [] l \in {"w_failed", "tx_failed"} -> "FAILED"
    [] l \in {"w_completed", "tx_completed"} -> "COMPLETED"

\* The result object of a run that ends with status s.
ResultSuccessAlways(s, st) ==
  [kind |-> "returned", success |-> TRUE, status |-> s,
   error |-> IF s = "FAILED" THEN Last(st).error ELSE None, steps |-> st]

Result(s, st) ==
  [kind |-> "returned", success |-> (s = "COMPLETED"), status |-> s,
   error |-> IF s = "FAILED" THEN Last(st).error ELSE None, steps |-> st]

Thrown(e) ==
  [kind |-> "threw", success |-> FALSE, status |-> None, error |-> e,
   steps |-> <<>>]

NoResult ==
  [kind |-> None, success |-> FALSE, status |-> None, error |-> None,
   steps |-> <<>>]

\* ------------------------------------------------- webhook dispatcher ---
\* Subscriber endpoints one event may be delivered to.
MaxEndpoints == 2

maxRetries == 5

\* Milliseconds; retryDelays[n] here is retryDelays[n - 1] of the code.
retryDelays == <<1000, 5000, 15000, 60000, 300000>>

maxPayloadSize == 1024 * 1024

EndpointIds == 1..MaxEndpoints

\* What getMockWebhookEndpoints may return: the endpoints subscribed to the
\* event type, none included.
EndpointLists == {[i \in 1..n |-> i] : n \in 0..MaxEndpoints}

\* The serialized event, JSON.stringify(event), measured two ways: length
\* is payload.length, the count of UTF-16 code units the size check reads;
\* bytes is its size as axios sends it (UTF-8), equal to length for an
\* ASCII payload and greater when a string field (customerId,
\* externalReference, eventData) has a character above U+007F.  Two
\* payloads: one of length exactly at the limit with one such character,
\* and one of length over the limit.
PayloadSizes ==
  {[length |-> maxPayloadSize, bytes |-> maxPayloadSize + 1],
   [length |-> maxPayloadSize + 1, bytes |-> maxPayloadSize + 1]}

\* The event types sendPaymentWebhook is called with.
SentTypes == {PAYMENT_FAILED}

\* What axios.post gives with validateStatus: () => true: a response of any
\* status, or a throw (network error, timeout after webhookTimeout).
Responses ==
  { [kind |-> "response", status |-> 200, error |-> None],
    [kind |-> "response", status |-> 404, error |-> None],
    [kind |-> "response", status |-> 500, error |-> None],
    [kind |-> "throw", status |-> 0, error |-> "timeout of 30000ms exceeded"] }

\* httpStatus and nextRetryAt left undefined in a delivery record.
NoStatus == 0
NoRetryAt == 0

NoEvent ==
  [id |-> 0, type |-> None, paymentId |-> None, status |-> None, size |-> 0,
   bytes |-> 0]

NoRequest == [attempt |-> 0, event |-> NoEvent]

\* sendPaymentWebhook not called.
NoSend == [status |-> "none", caught |-> None]

\* verifySignature's default toleranceSeconds, which the middleware passes
\* as well.
toleranceSeconds == 300

\* Clocks (Math.floor(Date.now() / 1000)) at which headers are made and
\* signatures verified, and the times a timestamp may spell: each clock,
\* and 300 and 301 seconds on either side of the first.
Epoch == 1000

Clocks == {Epoch, Epoch + 300, Epoch + 301}

TimeValues ==
  {Epoch - 301, Epoch - 300, Epoch, Epoch + 300, Epoch + 301}

\* What parseInt gives for a string that spells no number.
NaN == [isNaN |-> TRUE, value |-> 0]

\* The timestamp strings: decimal numbers of seconds, and one that is not
\* a number.
Timestamps == {ToString(n) : n \in TimeValues} \cup {"soon"}

Payloads == {"{}", "[]"}

Secrets == {"whsec_demo_stripe_secret", "demo_offramp_secret"}

\* The verification middleware has not answered; it called next().
NoResponse == 0

PassedOn == 1

NoWebhookRequest ==
  [route |-> None, now |-> 0, header |-> FALSE, timestamp |-> None,
   body |-> None, signature |-> <<>>]

Creates == 1..MaxCreates

\* Idempotency keys of createPayment requests: the key of the payment
\* already stored, and a new one.
Keys == {"k0", "k1"}

\* createPayment not called.
NoCreate ==
  [pc |-> "idle", key |-> None, existing |-> None, existingStatus |-> None,
   stored |-> None, storedStatus |-> None, madePayments |-> 0,
   madeFees |-> 0, result |-> [kind |-> None, id |-> None, status |-> None]]

\* webhookRateLimit: const maxAttempts = 100, const windowMs = 1 hour.
maxAttempts == 100

windowMs == 60 * 60 * 1000

\* req.ip of the clients calling the webhook router.
ClientIps == {"203.0.113.1", "203.0.113.2"}

\* The client whose requests are counted to bound the exploration.
OtherIp == "203.0.113.2"

\* The instants (Date.now(), from the first request on) requests arrive at:
\* the start, the last millisecond of a window, the first one after it.
RateClocks ==
  {0, 1, windowMs, windowMs + 1, windowMs + 2, 2 * windowMs + 1,
   2 * windowMs + 2}

\* attempts.get(clientIp) undefined: no entry in the Map.
NoEntry == [count |-> 0, resetTime |-> 0]

\* No request made to the router yet.
NoRateRequest == [ip |-> None, now |-> 0, status |-> 0]

NoSigned ==
  [payload |-> None, secret |-> None, timestamp |-> None, by |-> None,
   signature |-> <<>>]

NoVerified ==
  [payload |-> None, signature |-> <<>>, secret |-> None,
   timestamp |-> None, now |-> 0,
   result |-> [isValid |-> FALSE, error |-> None]]

\* ---------------------------------------------------------------- Init ---
Init ==
  /\ payments = [p \in StoredIds |->
                   [status |-> "PENDING", completedAt |-> FALSE,
                    externalReference |-> FALSE]]
  /\ paymentEvents = <<>>
  /\ transactions = {}
  /\ dispatched = <<>>
  /\ pc = [r \in Runs |-> "idle"]
  /\ pay = [r \in Runs |-> None]
  /\ cur = [r \in Runs |-> None]
  /\ steps = [r \in Runs |-> <<>>]
  /\ charge = [r \in Runs |-> NoCharge]
  /\ result = [r \in Runs |-> NoResult]
  /\ atCall = [r \in Runs |-> None]
  /\ calls = [r \in Runs |-> <<>>]
  /\ wrote = [r \in Runs |-> <<>>]
  /\ rows = [r \in Runs |-> 0]
  /\ hpc = [h \in Inbounds |-> "idle"]
  /\ hreq = [h \in Inbounds |-> [kind |-> None, paymentId |-> None]]
  /\ event = NoEvent
  /\ endpoints = <<>>
  /\ loopAt = 0
  /\ inflight = [e \in EndpointIds |-> NoRequest]
  /\ timers = {}
  /\ attempts = [e \in EndpointIds |-> <<>>]
  /\ requests = [e \in EndpointIds |-> <<>>]
  /\ received = [e \in EndpointIds |-> <<>>]
  /\ scheduled = [e \in EndpointIds |-> <<>>]
  /\ dbUp = TRUE
  /\ sendResult = NoSend
  /\ signed = NoSigned
  /\ verified = NoVerified
  /\ hin = [h \in Inbounds |-> NoWebhookRequest]
  /\ hres = [h \in Inbounds |-> NoResponse]
  /\ registered = <<>>
  /\ idempotencyKey = [p \in StoredIds |-> "k0"]
  /\ fees = [p \in StoredIds |-> 1]
  /\ creates = [c \in Creates |-> NoCreate]
  /\ ipAttempts = [ip \in ClientIps |-> NoEntry]
  /\ rateNow = 0
  /\ rateLast = NoRateRequest
  /\ ratePassed = [ip \in ClientIps |-> [since |-> 0, n |-> 0]]
  /\ rateSeen = 0

\* ------------------------------------------- PaymentProcessor actions ---
\* POST /admin/payments/:id/process reaches processPayment(p), which runs
\* to its first write.  Step 1: findUnique, the two checks, and
\* steps.push(validate_payment).  Calls take their numbers in the order they
\* are made.
Start(r, p) ==
  /\ pc[r] = "idle"
  /\ IF r = 1 THEN TRUE ELSE pc[r - 1] # "idle"
  /\ pay' = [pay EXCEPT ![r] = p]
  /\ atCall' = [atCall EXCEPT ![r] = StoredStatus(p)]
  /\ IF IsProcessable(StoredStatus(p))
     THEN /\ pc' = [pc EXCEPT ![r] = "w_processing"]
          /\ steps' = [steps EXCEPT ![r] =
                         Append(@, Step("validate_payment", "completed",
                                        None, NoCharge))]
          /\ UNCHANGED result
     ELSE /\ pc' = [pc EXCEPT ![r] = "thrown"]
          /\ result' = [result EXCEPT ![r] =
                          Thrown(ValidationError(StoredStatus(p)))]
          /\ UNCHANGED steps
  /\ UNCHANGED <<dbVars, dispatched, cur, charge, calls, wrote, rows, inVars>>
  /\ UNCHANGED <<whVars, libVars>>

\* updatePaymentStatus up to the read inside the transaction: the payment
\* is looked up (twice) and currentPayment is kept.
TxRead(r) ==
  /\ pc[r] \in {"w_processing", "w_failed", "w_completed"}
  /\ IF pay[r] \in DOMAIN payments
     THEN /\ cur' = [cur EXCEPT ![r] = payments[pay[r]].status]
          /\ pc' = [pc EXCEPT ![r] =
                      CASE pc[r] = "w_processing" -> "tx_processing"
                        [] pc[r] = "w_failed" -> "tx_failed"
                        [] pc[r] = "w_completed" -> "tx_completed"]
          /\ UNCHANGED result
     ELSE /\ pc' = [pc EXCEPT ![r] = "thrown"]
          /\ result' = [result EXCEPT ![r] = Thrown("Payment not found: " \o pay[r])]
          /\ UNCHANGED cur
  /\ UNCHANGED <<dbVars, dispatched, pay, steps, charge, histVars, inVars>>
  /\ UNCHANGED <<whVars, libVars>>

\* The transaction's update and its status_changed row, committed together;
\* then the code that follows the call up to the next await.
TxCommit(r) ==
  /\ pc[r] \in {"tx_processing", "tx_failed", "tx_completed"}
  /\ LET p == pay[r]
         s == Target(pc[r])
         row == StatusUpdate(payments[p], s)
     IN /\ payments' = [payments EXCEPT ![p] = row]
        /\ paymentEvents' = Append(paymentEvents, StatusChanged(p, cur[r], s))
        /\ wrote' = [wrote EXCEPT ![r] =
                        Append(@, [status |-> row.status,
                                   completedAt |-> row.completedAt])]
        /\ rows' = [rows EXCEPT ![r] = @ + 1]
        /\ IF s = "PROCESSING"
           THEN /\ steps' = [steps EXCEPT ![r] =
                               Append(@, Step("update_status_processing",
                                              "completed", None, NoCharge))]
                /\ pc' = [pc EXCEPT ![r] = "onramp"]
                /\ UNCHANGED result
           ELSE /\ pc' = [pc EXCEPT ![r] = "done"]
                /\ result' = [result EXCEPT ![r] = Result(s, steps[r])]
                /\ UNCHANGED steps
  /\ UNCHANGED <<transactions, dispatched, pay, cur, charge, atCall, calls,
                 inVars>>
  /\ UNCHANGED <<whVars, libVars>>

\* Step 3, processOnramp: createCharge, the Transaction row on success, the
\* step record pushed, and the branch on it.
Onramp(r) ==
  /\ pc[r] = "onramp"
  /\ \E o \in ChargeOutcomes :
       LET st == OnrampStep(o, ChargeId(r))
       IN /\ calls' = [calls EXCEPT ![r] =
                         Append(@, [op |-> "createCharge", arg |-> <<pay[r]>>,
                                    outcome |-> o.kind, error |-> o.error])]
          /\ steps' = [steps EXCEPT ![r] = Append(@, st)]
          /\ charge' = [charge EXCEPT ![r] = st.chargeId]
          /\ IF o.kind = "ok"
             THEN /\ transactions' = transactions \cup
                        {TransactionRow(pay[r], "stripe", ChargeId(r), r)}
                  /\ rows' = [rows EXCEPT ![r] = @ + 1]
             ELSE UNCHANGED <<transactions, rows>>
          /\ pc' = [pc EXCEPT ![r] = AfterOnramp(st)]
  /\ UNCHANGED <<payments, paymentEvents, dispatched, pay, cur, result,
                 atCall, wrote, inVars>>
  /\ UNCHANGED <<whVars, libVars>>

\* Step 4, processCurrencyConversion (simulated in process: no provider).
Conversion(r) ==
  /\ pc[r] = "conversion"
  /\ \E o \in ConversionOutcomes :
       LET st == ConversionStep(o)
       IN /\ steps' = [steps EXCEPT ![r] = Append(@, st)]
          /\ IF o.kind = "ok"
             THEN /\ transactions' = transactions \cup
                        {TransactionRow(pay[r], "exchange_service", <<>>, r)}
                  /\ rows' = [rows EXCEPT ![r] = @ + 1]
             ELSE UNCHANGED <<transactions, rows>>
          /\ pc' = [pc EXCEPT ![r] = AfterConversion(st)]
  /\ UNCHANGED <<payments, paymentEvents, dispatched, pay, cur, charge,
                 result, atCall, calls, wrote, inVars>>
  /\ UNCHANGED <<whVars, libVars>>

\* Step 5, processOfframp: createTransfer, the Transaction row on success.
Offramp(r) ==
  /\ pc[r] = "offramp"
  /\ \E o \in TransferOutcomes :
       LET st == OfframpStep(o)
       IN /\ calls' = [calls EXCEPT ![r] =
                         Append(@, [op |-> "createTransfer",
                                    arg |-> <<pay[r]>>, outcome |-> o.kind,
                                    error |-> o.error])]
          /\ steps' = [steps EXCEPT ![r] = Append(@, st)]
          /\ IF o.kind = "ok"
             THEN /\ transactions' = transactions \cup
                        {TransactionRow(pay[r], "offramp_provider",
                                        <<"tx", r>>, r)}
                  /\ rows' = [rows EXCEPT ![r] = @ + 1]
             ELSE UNCHANGED <<transactions, rows>>
          /\ pc' = [pc EXCEPT ![r] = AfterOfframp(st)]
  /\ UNCHANGED <<payments, paymentEvents, dispatched, pay, cur, charge,
                 result, atCall, wrote, inVars>>
  /\ UNCHANGED <<whVars, libVars>>

\* refundOnramp(onrampResult.details.chargeId): refundCharge is called and
\* its outcome is logged; nothing is stored and no step is pushed.
Refund(r) ==
  /\ pc[r] = "refund"
  /\ \E o \in RefundOutcomes :
       /\ calls' = [calls EXCEPT ![r] =
                      Append(@, [op |-> "refundCharge", arg |-> charge[r],
                                 outcome |-> o.kind, error |-> o.error])]
       /\ IF RefundPropagates(o)
          THEN /\ pc' = [pc EXCEPT ![r] = "thrown"]
               /\ result' = [result EXCEPT ![r] = Thrown(o.error)]
          ELSE /\ pc' = [pc EXCEPT ![r] = "w_failed"]
               /\ UNCHANGED result
  /\ UNCHANGED <<dbVars, dispatched, pay, cur, steps, charge, atCall, wrote,
                 rows, inVars>>
  /\ UNCHANGED <<whVars, libVars>>


\* ---------------------------------------- inbound provider webhooks ------
\* PaymentService.updatePaymentStatus: storage.updatePayment with the status
\* and, for COMPLETED, the completion time.  No PaymentEvent is written.
ServiceStatusUpdate(row, status) ==
  [row EXCEPT !.status = status,
              !.completedAt = IF status = "COMPLETED" THEN TRUE ELSE @]

\* The status a handler stores for the provider event it handles.
HandlerStatus(kind) ==
  CASE kind = "offramp.completed" -> "COMPLETED"
    [] kind = "offramp.failed" -> "FAILED"
    [] kind = "payment_intent.payment_failed" -> "FAILED"
    [] OTHER -> None

\* The PaymentEvent row a handler creates.
HandlerEvent(kind, p) ==
  CASE kind = "payment_intent.succeeded" ->
         PlainEvent(p, "stripe_payment_succeeded", "stripe_webhook")
    [] kind = "payment_intent.payment_failed" ->
         PlainEvent(p, "stripe_payment_failed", "stripe_webhook")
    [] kind = "offramp.completed" ->
         PlainEvent(p, "offramp_completed", "offramp_webhook")

\* The customer notification a handler sends.
HandlerNotification(kind) ==
  CASE kind = "payment_intent.succeeded" -> PAYMENT_PROCESSING
    [] kind = "payment_intent.payment_failed" -> PAYMENT_FAILED
    [] kind = "offramp.completed" -> PAYMENT_COMPLETED
    [] kind = "offramp.failed" -> PAYMENT_FAILED

\* The PaymentWebhookEvent sendPaymentWebhook builds from the stored
\* payment; its generated id is its place among the events built.
WebhookEvent(type, p) ==
  [id |-> Len(dispatched) + 1, type |-> type, paymentId |-> p,
   status |-> payments[p].status]

\* A verified request reaches its handler, which runs to its first await:
\* a Stripe event without metadata.paymentId is dropped; an update of a row
\* that does not exist throws into the handler's catch; payment_intent.
\* succeeded stores the reference and its event in one transaction; the
\* others store the new status.
HandlerStart(h, kind, p) ==
  /\ hpc[h] = "idle"
  /\ IF h = 1 THEN TRUE ELSE hpc[h - 1] # "idle"
  /\ p = None => kind \in {"payment_intent.succeeded",
                           "payment_intent.payment_failed"}
  /\ IF p \notin DOMAIN payments
     THEN /\ hpc' = [hpc EXCEPT ![h] = "done"]
          /\ UNCHANGED <<payments, paymentEvents, hreq>>
     ELSE IF kind = "payment_intent.succeeded"
     THEN /\ hreq' = [hreq EXCEPT ![h] = [kind |-> kind, paymentId |-> p]]
          /\ payments' = [payments EXCEPT ![p].externalReference = TRUE]
          /\ paymentEvents' = Append(paymentEvents, HandlerEvent(kind, p))
          /\ hpc' = [hpc EXCEPT ![h] = "send"]
     ELSE /\ hreq' = [hreq EXCEPT ![h] = [kind |-> kind, paymentId |-> p]]
          /\ payments' = [payments EXCEPT ![p] =
                            ServiceStatusUpdate(@, HandlerStatus(kind))]
          /\ hpc' = [hpc EXCEPT ![h] =
                       IF kind = "offramp.failed" THEN "send" ELSE "event"]
          /\ UNCHANGED paymentEvents
  /\ UNCHANGED <<transactions, dispatched, runVars, histVars>>

InboundStart(h, kind, p) ==
  /\ HandlerStart(h, kind, p)
  /\ UNCHANGED <<whVars, libVars>>

\* prisma.paymentEvent.create of handleStripePaymentFailed and
\* handleOfframpCompleted.
InboundEvent(h) ==
  /\ hpc[h] = "event"
  /\ paymentEvents' =
       Append(paymentEvents, HandlerEvent(hreq[h].kind, hreq[h].paymentId))
  /\ hpc' = [hpc EXCEPT ![h] = "send"]
  /\ UNCHANGED <<payments, transactions, dispatched, hreq, runVars, histVars>>
  /\ UNCHANGED <<whVars, libVars>>

\* webhookService.sendPaymentWebhook: the payment is read and the event
\* built from it and handed to delivery; a missing payment is logged.
InboundSend(h) ==
  /\ hpc[h] = "send"
  /\ dispatched' =
       IF hreq[h].paymentId \in DOMAIN payments
       THEN Append(dispatched,
                   WebhookEvent(HandlerNotification(hreq[h].kind),
                                hreq[h].paymentId))
       ELSE dispatched
  /\ hpc' = [hpc EXCEPT ![h] = "done"]
  /\ hreq' = [hreq EXCEPT ![h] = [kind |-> None, paymentId |-> None]]
  /\ UNCHANGED <<dbVars, runVars, histVars>>
  /\ UNCHANGED <<whVars, libVars>>

\* ------------------------------------------------------ specification ---
Next ==
  \/ \E r \in Runs, p \in PaymentIds : Start(r, p)
  \/ \E r \in Runs : TxRead(r)
  \/ \E r \in Runs : TxCommit(r)
  \/ \E r \in Runs : Onramp(r)
  \/ \E r \in Runs : Conversion(r)
  \/ \E r \in Runs : Offramp(r)
  \/ \E r \in Runs : Refund(r)
  \/ \E h \in Inbounds, kind \in InboundKinds, p \in PaymentIds \cup {None} :
       InboundStart(h, kind, p)
  \/ \E h \in Inbounds : InboundEvent(h)
  \/ \E h \in Inbounds : InboundSend(h)

Spec == Init /\ [][Next]_vars

\* The orchestrator alone: processPayment calls with no provider webhook
\* arriving.
NextProcessor ==
  \/ \E r \in Runs, p \in PaymentIds : Start(r, p)
  \/ \E r \in Runs : TxRead(r)
  \/ \E r \in Runs : TxCommit(r)
  \/ \E r \in Runs : Onramp(r)
  \/ \E r \in Runs : Conversion(r)
  \/ \E r \in Runs : Offramp(r)
  \/ \E r \in Runs : Refund(r)

SpecProcessor == Init /\ [][NextProcessor]_vars


\* ------------------------------------------ webhook dispatcher actions ---
\* const isSuccess = response.status >= 200 && response.status < 300
IsSuccessAny(resp) == resp.kind = "response"

IsSuccess(resp) ==
  resp.kind = "response" /\ resp.status >= 200 /\ resp.status < 300

\* payload.length > this.maxPayloadSize
TooLargeNever(ev) == FALSE

TooLarge(ev) == ev.size > maxPayloadSize

\* attemptNumber < this.maxRetries
MayRetryAlways(n) == TRUE

MayRetryOnce(n) == n < 2

MayRetryThrough(n) == n <= maxRetries

MayRetry(n) == n < maxRetries

\* this.retryDelays[attemptNumber - 1] || this.retryDelays[length - 1]
RetryDelayFirst(n) == retryDelays[1]

RetryDelay(n) ==
  IF n \in 1..Len(retryDelays) THEN retryDelays[n]
  ELSE retryDelays[Len(retryDelays)]

\* The event the retry callback passes on: the object it was given.
RetryEventFresh(ev) == [ev EXCEPT !.id = @ + 1]

RetryEvent(ev) == ev

\* `HTTP ${response.status}: ${response.statusText}`, or error.message.
ErrorMessage(resp) ==
  IF resp.kind = "response" THEN "HTTP " \o ToString(resp.status)
  ELSE resp.error

\* The data recordWebhookDelivery stores in a webhook_delivery row.
DeliveryRecord(e, ev, n, status, error, delivered, nextRetryAt) ==
  [webhookEndpointId |-> e, paymentId |-> ev.paymentId, eventType |-> ev.type,
   attemptNumber |-> n, httpStatus |-> status, error |-> error,
   delivered |-> delivered, nextRetryAt |-> nextRetryAt]

\* The event with its serialized length.
PayloadEvent(ev, size) ==
  [id |-> ev.id, type |-> ev.type, paymentId |-> ev.paymentId,
   status |-> ev.status, size |-> size.length, bytes |-> size.bytes]

\* deliverWebhook returns: to the loop of sendPaymentWebhook, which moves
\* on to the next endpoint, when it was the first attempt (whether it
\* delivered or not); to the timer callback otherwise.
LoopAfterStopOnFailure(n, delivered, at) ==
  IF n = 1 /\ delivered THEN at + 1 ELSE at

LoopAfter(n, delivered, at) == IF n = 1 THEN at + 1 ELSE at

\* deliveryRecord.nextRetryAt: set in the branch that schedules the retry.
NextRetryAtAlways(n) == RetryDelay(n)

NextRetryAt(n) == IF MayRetry(n) THEN RetryDelay(n) ELSE NoRetryAt

\* recordWebhookDelivery: paymentEvent.create in a try whose catch logs
\* and returns, so a failed write leaves no row and raises nothing.
Stored(rows_, rec) == IF dbUp THEN Append(rows_, rec) ELSE rows_

\* sendPaymentWebhook's own try/catch: an error reaching it (payment not
\* found, findUnique failing) is logged and the promise resolves.
SendOutcomeRethrow(error) ==
  [status |-> IF error = None THEN "pending" ELSE "rejected",
   caught |-> None]

SendOutcome(error) ==
  [status |-> IF error = None THEN "pending" ELSE "resolved",
   caught |-> error]

\* The loop over the endpoints ends: the promise resolves.
LoopResult(at, res) ==
  IF res.status = "pending" /\ at > Len(endpoints)
  THEN [res EXCEPT !.status = "resolved"]
  ELSE res

\* handleWebhookFailure: the record is built, the retry is scheduled while
\* attempts remain, and the record is stored.  The write is taken to be
\* done before the retry timer, set at least 1000 ms ahead, runs.  tm is
\* the set of timers still pending.
HandleWebhookFailure(e, ev, n, error, status, tm) ==
  /\ IF MayRetry(n)
     THEN /\ timers' = tm \cup {[endpoint |-> e, attempt |-> n + 1,
                                  event |-> RetryEvent(ev),
                                  delay |-> RetryDelay(n)]}
          /\ scheduled' = [scheduled EXCEPT ![e] =
                             Append(@, [after |-> n, delay |-> RetryDelay(n)])]
     ELSE /\ timers' = tm
          /\ UNCHANGED scheduled
  /\ attempts' = [attempts EXCEPT ![e] =
       Stored(@, DeliveryRecord(e, ev, n, status, error, FALSE,
                                NextRetryAt(n)))]
  /\ loopAt' = LoopAfter(n, FALSE, loopAt)

\* deliverWebhook(endpoint, event, attemptNumber) up to its first await: the
\* size check, which throws into the catch, or the HTTP request.
DeliverWebhook(e, ev, n, tm) ==
  IF TooLarge(ev)
  THEN /\ HandleWebhookFailure(e, ev, n, "Webhook payload too large",
                               NoStatus, tm)
       /\ UNCHANGED <<inflight, requests>>
  ELSE /\ inflight' = [inflight EXCEPT ![e] = [attempt |-> n, event |-> ev]]
       /\ requests' = [requests EXCEPT ![e] =
                         Append(@, [attempt |-> n, event |-> ev])]
       /\ timers' = tm
       /\ UNCHANGED <<scheduled, attempts, loopAt>>

\* sendPaymentWebhook(p, type, eventData): the payment is read; a missing
\* one is logged and the call returns; else the event is built and the
\* endpoints are fetched.
SendPaymentWebhook(p, type, size, eps) ==
  /\ loopAt = 0
  /\ loopAt' = 1
  /\ IF dbUp /\ p \in DOMAIN payments
     THEN /\ event' = PayloadEvent(WebhookEvent(type, p), size)
          /\ dispatched' = Append(dispatched, WebhookEvent(type, p))
          /\ endpoints' = eps
          /\ sendResult' = IF eps = <<>>
                           THEN [status |-> "resolved", caught |-> None]
                           ELSE SendOutcome(None)
     ELSE /\ sendResult' = SendOutcome(IF dbUp THEN "Payment not found"
                                       ELSE "database error")
          /\ UNCHANGED <<event, dispatched, endpoints>>
  /\ UNCHANGED <<libVars, dbVars, runVars, histVars, inVars, inflight,
                 timers,
                 attempts, requests, received, scheduled, dbUp>>

\* The loop of sendPaymentWebhook: await deliverWebhook(endpoint, event).
DeliverFirst ==
  /\ loopAt \in 1..Len(endpoints)
  /\ inflight[endpoints[loopAt]] = NoRequest
  /\ DeliverWebhook(endpoints[loopAt], event, 1, timers)
  /\ sendResult' = LoopResult(loopAt', sendResult)
  /\ UNCHANGED <<libVars, dbVars, dispatched, runVars, histVars, inVars,
                 event,
                 endpoints, received, dbUp>>

\* axios.post returns or throws; deliverWebhook stores the delivered record
\* or goes through handleWebhookFailure, and returns.
Respond(e, resp) ==
  /\ inflight[e] # NoRequest
  /\ inflight' = [inflight EXCEPT ![e] = NoRequest]
  /\ received' = [received EXCEPT ![e] = Append(@, resp)]
  /\ LET n == inflight[e].attempt
         ev == inflight[e].event
     IN IF IsSuccess(resp)
        THEN /\ attempts' = [attempts EXCEPT ![e] =
                  Stored(@, DeliveryRecord(e, ev, n, resp.status, None, TRUE,
                                           NoRetryAt))]
             /\ loopAt' = LoopAfter(n, TRUE, loopAt)
             /\ UNCHANGED <<timers, scheduled>>
        ELSE HandleWebhookFailure(e, ev, n, ErrorMessage(resp),
                                  IF resp.kind = "response" THEN resp.status
                                  ELSE NoStatus, timers)
  /\ sendResult' = LoopResult(loopAt', sendResult)
  /\ UNCHANGED <<libVars, dbVars, dispatched, runVars, histVars, inVars,
                 event,
                 endpoints, requests, dbUp>>

\* A retry timer runs its callback: deliverWebhook(endpoint, event, n + 1).
TimerFire(t) ==
  /\ t \in timers
  /\ DeliverWebhook(t.endpoint, t.event, t.attempt, timers \ {t})
  /\ UNCHANGED <<libVars, dbVars, dispatched, runVars, histVars, inVars,
                 event,
                 endpoints, received, dbUp, sendResult>>

NextDispatcher ==
  \/ \E p \in PaymentIds, type \in SentTypes, size \in PayloadSizes,
        eps \in EndpointLists : SendPaymentWebhook(p, type, size, eps)
  \/ DeliverFirst
  \/ \E e \in EndpointIds, resp \in Responses : Respond(e, resp)
  \/ \E t \in timers : TimerFire(t)

SpecDispatcher == Init /\ [][NextDispatcher]_vars

\* The dispatcher with its scheduling: the loop of sendPaymentWebhook goes
\* on, axios.post answers or times out after webhookTimeout, and a timer
\* set with setTimeout runs its callback (the process staying up).
SpecDispatcherFair ==
  /\ SpecDispatcher
  /\ WF_vars(DeliverFirst)
  /\ WF_vars(\E e \in EndpointIds, resp \in Responses : Respond(e, resp))
  /\ WF_vars(\E t \in timers : TimerFire(t))

\* The database stops answering the dispatcher: from here findUnique and
\* paymentEvent.create throw.  The outage starts before the call or during
\* it up to the first record, and lasts.
DbDown ==
  /\ dbUp
  /\ \A e \in EndpointIds : attempts[e] = <<>>
  /\ dbUp' = FALSE
  /\ UNCHANGED <<libVars, dbVars, dispatched, runVars, histVars, inVars,
                 event,
                 endpoints, loopAt, inflight, timers, attempts, requests,
                 received, scheduled, sendResult>>

NextDispatcherFaulty == NextDispatcher \/ DbDown

SpecDispatcherFaulty == Init /\ [][NextDispatcherFaulty]_vars

\* ------------------------------------------- database errors, canceller ---
\* updatePaymentStatus when the database fails it: the existence check or
\* the transaction throws (the transaction rolls back, nothing is stored),
\* updatePaymentStatus rethrows, and processPayment's catch rethrows to the
\* caller, whose HTTP response carries the message only.
TxFail(r) ==
  /\ pc[r] \in {"w_processing", "w_failed", "w_completed",
                "tx_processing", "tx_failed", "tx_completed"}
  /\ pc' = [pc EXCEPT ![r] = "thrown"]
  /\ result' = [result EXCEPT ![r] = Thrown("database error")]
  /\ UNCHANGED <<dbVars, dispatched, pay, cur, steps, charge, histVars,
                 inVars>>
  /\ UNCHANGED <<whVars, libVars>>

\* The orchestrator over a database that may fail a status write.
NextFaulty ==
  \/ \E r \in Runs, p \in PaymentIds : Start(r, p)
  \/ \E r \in Runs : TxRead(r)
  \/ \E r \in Runs : TxCommit(r)
  \/ \E r \in Runs : TxFail(r)
  \/ \E r \in Runs : Onramp(r)
  \/ \E r \in Runs : Conversion(r)
  \/ \E r \in Runs : Offramp(r)
  \/ \E r \in Runs : Refund(r)

SpecFaulty == Init /\ [][NextFaulty]_vars

\* The external cancellation collaborator: it cancels a payment that is
\* PENDING, the check and the write being one conditional update.  The
\* repository has no code for it (PaymentStatus.CANCELLED is never written).
Cancel(p) ==
  /\ p \in DOMAIN payments
  /\ payments[p].status = "PENDING"
  /\ payments' = [payments EXCEPT ![p].status = "CANCELLED"]
  /\ UNCHANGED <<paymentEvents, transactions, dispatched, runVars, histVars,
                 inVars>>
  /\ UNCHANGED <<whVars, libVars>>

\* The orchestrator next to the canceller.
NextCancel ==
  \/ \E r \in Runs, p \in PaymentIds : Start(r, p)
  \/ \E r \in Runs : TxRead(r)
  \/ \E r \in Runs : TxCommit(r)
  \/ \E r \in Runs : Onramp(r)
  \/ \E r \in Runs : Conversion(r)
  \/ \E r \in Runs : Offramp(r)
  \/ \E r \in Runs : Refund(r)
  \/ \E p \in PaymentIds : Cancel(p)

SpecCancel == Init /\ [][NextCancel]_vars


\* --------------------------------------------- WebhookSecurity (crypto) ---
\* generateSignature(payload, secret): HMAC-SHA256 in hex.  The digest is
\* modelled as a keyed function without collisions on the inputs below and
\* of fixed length: the rank of (payload, secret) among the inputs, written
\* in DigestLen hex digits.
RECURSIVE Rank(_, _)
Rank(x, S) ==
  LET c == CHOOSE y \in S : TRUE
  IN IF c = x THEN 0 ELSE 1 + Rank(x, S \ {c})

SignedPayload(timestamp, payload) == timestamp \o "." \o payload

HmacInputs ==
  {<<SignedPayload(t, p), s>> : t \in Timestamps, p \in Payloads,
                                s \in Secrets}

GenerateSignature(payload, secret) ==
  LET k == Rank(<<payload, secret>>, HmacInputs)
  IN <<k \div 16, k % 16>>

\* parseInt(timestamp): the number a decimal string spells, NaN otherwise.
ParseInt(timestamp) ==
  IF \E n \in TimeValues : ToString(n) = timestamp
  THEN [isNaN |-> FALSE,
        value |-> CHOOSE n \in TimeValues : ToString(n) = timestamp]
  ELSE NaN

\* Math.abs(currentTime - webhookTime) > toleranceSeconds; every comparison
\* with NaN is false.
TooOldPastOnly(currentTime, webhookTime, tolerance) ==
  /\ ~webhookTime.isNaN
  /\ currentTime > webhookTime.value
  /\ currentTime - webhookTime.value > tolerance

TooOld(currentTime, webhookTime, tolerance) ==
  /\ ~webhookTime.isNaN
  /\ (IF currentTime >= webhookTime.value
      THEN currentTime - webhookTime.value
      ELSE webhookTime.value - currentTime) > tolerance

\* a.charCodeAt(i) ^ b.charCodeAt(i) on two hex digits, bit by bit.
RECURSIVE Xor(_, _)
Xor(a, b) ==
  IF a = 0 /\ b = 0 THEN 0
  ELSE (((a % 2) + (b % 2)) % 2) + (2 * Xor(a \div 2, b \div 2))

\* result |= ... over the characters up to i.
RECURSIVE OrOfXors(_, _, _)
OrOfXors(a, b, i) ==
  IF i = 0 THEN 0
  ELSE LET r == OrOfXors(a, b, i - 1)
           x == Xor(a[i], b[i])
       IN IF r = 0 THEN x ELSE r

\* constantTimeCompare(a, b)
ConstantTimeCompareFirst(a, b) ==
  IF a = <<>> \/ b = <<>> THEN a = b ELSE Xor(a[1], b[1]) = 0

ConstantTimeCompare(a, b) ==
  IF Len(a) # Len(b) THEN FALSE ELSE OrOfXors(a, b, Len(a)) = 0

\* verifySignature(payload, signature, secret, timestamp, toleranceSeconds)
\* at clock currentTime (seconds).
VerifySignatureResult(payload, signature, secret, timestamp, tolerance, currentTime) ==
  IF TooOld(currentTime, ParseInt(timestamp), tolerance)
  THEN [isValid |-> FALSE, error |-> "Webhook timestamp too old"]
  ELSE IF ~ConstantTimeCompare(signature,
             GenerateSignature(SignedPayload(timestamp, payload), secret))
  THEN [isValid |-> FALSE, error |-> "Signature verification failed"]
  ELSE [isValid |-> TRUE, error |-> None]

\* The signatures a verifier may be handed for a signed message: the one
\* made, it with one character altered, it cut short, it with one more.
Altered(sig, i) == [sig EXCEPT ![i] = (@ + 1) % 16]

Presented(sig) ==
  {sig, SubSeq(sig, 1, Len(sig) - 1), Append(sig, 0)}
  \cup {Altered(sig, i) : i \in 1..Len(sig)}

\* generateSignature(`${timestamp}.${payload}`, secret), by a sender.
Sign(payload, secret, timestamp) ==
  /\ signed = NoSigned
  /\ signed' = [payload |-> payload, secret |-> secret,
                timestamp |-> timestamp, by |-> "sign",
                signature |->
                  GenerateSignature(SignedPayload(timestamp, payload),
                                    secret)]
  /\ UNCHANGED <<dbVars, dispatched, runVars, histVars, inVars, whVars,
                 gwVars, regVars, crVars, rlVars, verified>>

\* generateWebhookHeaders(payload, secret) at clock now: X-Webhook-Timestamp
\* and X-Webhook-Signature.
GenerateWebhookHeaders(payload, secret, now) ==
  /\ signed = NoSigned
  /\ LET timestamp == ToString(now)
     IN signed' = [payload |-> payload, secret |-> secret,
                   timestamp |-> timestamp, by |-> "headers",
                   signature |->
                     GenerateSignature(SignedPayload(timestamp, payload),
                                       secret)]
  /\ UNCHANGED <<dbVars, dispatched, runVars, histVars, inVars, whVars,
                 gwVars, regVars, crVars, rlVars, verified>>

\* verifySignature called at clock now with a presented signature.
VerifySignature(payload, signature, secret, timestamp, now) ==
  /\ signed # NoSigned
  /\ verified = NoVerified
  /\ verified' = [payload |-> payload, signature |-> signature,
                  secret |-> secret, timestamp |-> timestamp, now |-> now,
                  result |-> VerifySignatureResult(payload, signature,
                               secret, timestamp, toleranceSeconds, now)]
  /\ UNCHANGED <<dbVars, dispatched, runVars, histVars, inVars, whVars,
                 gwVars, regVars, crVars, rlVars, signed>>

NextSignature ==
  \/ \E p \in Payloads, s \in Secrets, t \in Timestamps : Sign(p, s, t)
  \/ \E p \in Payloads, s \in Secrets, now \in Clocks :
       GenerateWebhookHeaders(p, s, now)
  \/ \E p \in Payloads, s \in Secrets, t \in Timestamps, now \in Clocks :
       \E sig \in Presented(signed.signature) :
         VerifySignature(p, sig, s, t, now)

SpecSignature == Init /\ [][NextSignature]_vars


\* ------------------------------------------ inbound webhook middleware ---
\* The secrets the routes verify with (their defaults).
STRIPE_WEBHOOK_SECRET == "whsec_demo_stripe_secret"

OFFRAMP_WEBHOOK_SECRET == "demo_offramp_secret"

RouteSecret(route) ==
  IF route = "stripe" THEN STRIPE_WEBHOOK_SECRET ELSE OFFRAMP_WEBHOOK_SECRET

\* The provider events each route's switch hands to a handler.
RouteKinds(route) ==
  IF route = "stripe"
  THEN {"payment_intent.succeeded", "payment_intent.payment_failed"}
  ELSE {"offramp.completed", "offramp.failed"}

\* req.path as the router's middleware sees it, in segments: the router is
\* mounted with app.use(`/webhooks`, webhookRoutes), and express strips the
\* mount path, so POST /webhooks/stripe has req.path "/stripe".
MountedPath(route) == <<route>>

\* captureRawBody: req.rawBody is set only when
\* req.path.startsWith('/webhooks/'); otherwise next() is called with
\* req.rawBody left undefined.
CaptureRawBody(path, body) ==
  IF Len(path) >= 2 /\ path[1] = "webhooks" THEN body ELSE None

\* What a route's verification middleware answers: 400, 401, or PassedOn
\* when it calls next().  Absent header values are None (timestamp) and
\* the empty string (signature); a Stripe-Signature header without v1=
\* gives an undefined signature, which verifySignature's catch turns into
\* an invalid result.
MiddlewareStatus(route, req, rawBody, now) ==
  IF route = "stripe" /\ ~req.header THEN 400
  ELSE IF route = "offramp" /\ (req.timestamp = None \/ req.signature = <<>>)
  THEN 400
  ELSE IF rawBody = None THEN 400
  ELSE IF req.timestamp = None THEN 400
  ELSE IF ~VerifySignatureResult(rawBody, req.signature, RouteSecret(route),
                                 req.timestamp, 300, now).isValid
  THEN 401
  ELSE PassedOn

\* The requests a sender may make: with or without each header and the
\* body, the signature being the right one for the route's secret, an
\* altered one, or absent.
SignaturesFor(route, timestamp, body) ==
  IF timestamp = None \/ body = None
  THEN {<<>>, <<0, 0>>}
  ELSE LET good == GenerateSignature(SignedPayload(timestamp, body),
                                     RouteSecret(route))
       IN {<<>>, good, Altered(good, 1)}

WebhookRequests(route) ==
  UNION {{[header |-> hd, timestamp |-> t, body |-> b, signature |-> s] :
            hd \in BOOLEAN, s \in SignaturesFor(route, t, b)} :
         t \in {None, ToString(Epoch), ToString(Epoch - 301)},
         b \in {None} \cup Payloads}

\* POST /webhooks/<route>: captureRawBody, the route's verification, and,
\* when that calls next(), the route handler up to its first await.
WebhookRequest(h, route, req, now, kind, p) ==
  /\ hpc[h] = "idle"
  /\ hres[h] = NoResponse
  /\ IF h = 1 THEN TRUE ELSE hres[h - 1] # NoResponse
  /\ hin' = [hin EXCEPT ![h] =
               [route |-> route, now |-> now, header |-> req.header,
                timestamp |-> req.timestamp, body |-> req.body,
                signature |-> req.signature]]
  /\ LET rawBody == CaptureRawBody(MountedPath(route), req.body)
         status == MiddlewareStatus(route, req, rawBody, now)
     IN /\ hres' = [hres EXCEPT ![h] = status]
        /\ IF status = PassedOn
           THEN HandlerStart(h, kind, p)
           ELSE UNCHANGED <<dbVars, dispatched, runVars, histVars, inVars>>
  /\ UNCHANGED <<whVars, sigVars, regVars, crVars, rlVars>>

NextGateway ==
  \E h \in Inbounds, route \in {"stripe", "offramp"}, now \in Clocks :
    \E req \in WebhookRequests(route), kind \in RouteKinds(route),
       p \in PaymentIds :
      WebhookRequest(h, route, req, now, kind, p)

SpecGateway == Init /\ [][NextGateway]_vars


\* ----------------------------------------------- endpoint registration ---
\* The URLs offered for registration, as new URL(url) parses them: the
\* protocol, and the hostname in its dot-separated labels; range is the
\* address range the host lies in (127.0.0.0/8 and ::1 loopback;
\* 10.0.0.0/8, 172.16.0.0/12, 192.168.0.0/16 and fc00::/7 private), which
\* the code never sees.  One string does not parse.
Url(protocol, labels, range) ==
  [parses |-> TRUE, protocol |-> protocol, hostname |-> labels,
   range |-> range]

Unparseable ==
  [parses |-> FALSE, protocol |-> None, hostname |-> <<>>, range |-> None]

WebhookUrls ==
  {Url("https:", <<"hooks", "example", "com">>, "public"),
   Url("http:", <<"hooks", "example", "com">>, "public"),
   Url("ftp:", <<"hooks", "example", "com">>, "public"),
   Url("https:", <<"localhost">>, "loopback"),
   Url("https:", <<"127", "0", "0", "1">>, "loopback"),
   Url("https:", <<"10", "1", "2", "3">>, "private"),
   Url("https:", <<"172", "16", "0", "1">>, "private"),
   Url("https:", <<"192", "168", "1", "1">>, "private"),
   Url("https:", <<"8", "8", "8", "8">>, "public"),
   Url("https:", <<"[::1]">>, "loopback"),
   Url("https:", <<"[fd00::1]">>, "private"),
   Unparseable}

Environments == {"production", "development"}

\* hostname.startsWith(first + '.')
StartsWithLabel(hostname, first) ==
  Len(hostname) >= 2 /\ hostname[1] = first

\* hostname.startsWith('192.168.')
StartsWithLabels(hostname, first, second) ==
  Len(hostname) >= 3 /\ hostname[1] = first /\ hostname[2] = second

\* isValidWebhookUrl(url) with process.env.NODE_ENV = env.
IsValidWebhookUrl(url, env) ==
  IF ~url.parses THEN FALSE
  ELSE IF env = "production" /\ url.protocol # "https:" THEN FALSE
  ELSE IF url.protocol \notin {"http:", "https:"} THEN FALSE
  ELSE IF env = "production"
          /\ (\/ url.hostname = <<"localhost">>
              \/ StartsWithLabel(url.hostname, "127")
              \/ StartsWithLabels(url.hostname, "192", "168")
              \/ StartsWithLabel(url.hostname, "10")
              \/ StartsWithLabel(url.hostname, "172"))
  THEN FALSE
  ELSE TRUE

\* registerWebhookEndpoint({ url, ... }): an invalid URL throws before the
\* secret is generated; otherwise the endpoint object, with its fresh
\* secret, is returned.
RegisterWebhookEndpoint(url, env) ==
  /\ Len(registered) < MaxRegistrations
  /\ registered # <<>> => env = registered[1].env
  /\ registered' = Append(registered,
       IF IsValidWebhookUrl(url, env)
       THEN [url |-> url, env |-> env, outcome |-> "endpoint",
             secret |-> TRUE]
       ELSE [url |-> url, env |-> env, outcome |-> "Invalid webhook URL",
             secret |-> FALSE])
  /\ UNCHANGED <<dbVars, dispatched, runVars, histVars, inVars, whVars,
                 sigVars, gwVars, crVars, rlVars>>

NextRegistration ==
  \E url \in WebhookUrls, env \in Environments :
    RegisterWebhookEndpoint(url, env)

SpecRegistration == Init /\ [][NextRegistration]_vars


\* ------------------------------------------ PaymentService.createPayment ---
\* The id createPayment gives the payment of call c (uuidv4()).
NewId(c) == "n" \o ToString(c)

\* The rows of table Payment that carry the key.
WithKey(key) == {p \in DOMAIN payments : idempotencyKey[p] = key}

\* storage.getPaymentByIdempotencyKey(key): prisma.payment.findUnique on
\* the unique column; the row's id, or None for null.
GetPaymentByIdempotencyKeyNull(key) == None

GetPaymentByIdempotencyKey(key) ==
  IF WithKey(key) = {} THEN None ELSE CHOOSE p \in WithKey(key) : TRUE

\* prisma.payment.create on a key already stored violates the unique index
\* on idempotencyKey and throws.
UniqueViolationNever(key) == FALSE

UniqueViolation(key) == WithKey(key) # {}

\* What createPayment returns: the payment (its id and status), or the
\* error it rethrows.
Created(id, status) == [kind |-> "ok", id |-> id, status |-> status]

CreateFailed(error) == [kind |-> error, id |-> None, status |-> None]

\* createPayment(request) to its first await and past it: the lookup of
\* request.idempotencyKey.  stored is the row holding the key at that
\* moment, kept for the properties.
CreateLookup(c, key) ==
  /\ creates[c].pc = "idle"
  /\ IF c = 1 THEN TRUE ELSE creates[c - 1].pc # "idle"
  /\ LET existing == GetPaymentByIdempotencyKey(key)
         stored == IF WithKey(key) = {} THEN None
                   ELSE CHOOSE p \in WithKey(key) : TRUE
     IN creates' = [creates EXCEPT ![c] =
          [@ EXCEPT !.pc = IF existing = None THEN "save" ELSE "replay",
                    !.key = key,
                    !.existing = existing,
                    !.existingStatus = IF existing = None THEN None
                                       ELSE payments[existing].status,
                    !.stored = stored,
                    !.storedStatus = IF stored = None THEN None
                                     ELSE payments[stored].status]]
  /\ UNCHANGED <<dbVars, dispatched, runVars, histVars, inVars, whVars,
                 sigVars, gwVars, regVars, rlVars, idempotencyKey, fees>>

\* The key was found: the fees are read, a quote is made, and the existing
\* payment, as read by the lookup, is returned.
CreateReplay(c) ==
  /\ creates[c].pc = "replay"
  /\ creates' = [creates EXCEPT ![c] =
       [@ EXCEPT !.pc = "done",
                 !.result = Created(creates[c].existing,
                                    creates[c].existingStatus)]]
  /\ UNCHANGED <<dbVars, dispatched, runVars, histVars, inVars, whVars,
                 sigVars, gwVars, regVars, rlVars, idempotencyKey, fees>>

\* The key was not found: quote and fees are computed and
\* storage.savePayment runs prisma.payment.create.
CreateSave(c) ==
  /\ creates[c].pc = "save"
  /\ IF UniqueViolation(creates[c].key)
     THEN /\ creates' = [creates EXCEPT ![c] =
               [@ EXCEPT !.pc = "thrown",
                         !.result = CreateFailed("Unique constraint failed")]]
          /\ UNCHANGED <<payments, idempotencyKey>>
     ELSE /\ payments' =
               [p \in DOMAIN payments \cup {NewId(c)} |->
                  IF p = NewId(c)
                  THEN [status |-> "PENDING", completedAt |-> FALSE,
                        externalReference |-> FALSE]
                  ELSE payments[p]]
          /\ idempotencyKey' =
               [p \in DOMAIN payments \cup {NewId(c)} |->
                  IF p = NewId(c) THEN creates[c].key ELSE idempotencyKey[p]]
          /\ creates' = [creates EXCEPT ![c] =
               [@ EXCEPT !.pc = "fees", !.madePayments = @ + 1]]
  /\ UNCHANGED <<paymentEvents, transactions, dispatched, runVars, histVars,
                 inVars, whVars, sigVars, gwVars, regVars, rlVars, fees>>

\* storage.saveFeesForPayment(payment.id, fees), and the return.
CreateFees(c) ==
  /\ creates[c].pc = "fees"
  /\ fees' = [p \in DOMAIN fees \cup {NewId(c)} |->
                IF p = NewId(c) THEN 1 ELSE fees[p]]
  /\ creates' = [creates EXCEPT ![c] =
       [@ EXCEPT !.pc = "done", !.madeFees = @ + 1,
                 !.result = Created(NewId(c), "PENDING")]]
  /\ UNCHANGED <<dbVars, dispatched, runVars, histVars, inVars, whVars,
                 sigVars, gwVars, regVars, rlVars, idempotencyKey>>

NextCreate ==
  \/ \E c \in Creates, key \in Keys : CreateLookup(c, key)
  \/ \E c \in Creates : CreateReplay(c)
  \/ \E c \in Creates : CreateSave(c)
  \/ \E c \in Creates : CreateFees(c)

SpecCreate == Init /\ [][NextCreate]_vars

\* ------------------------------------------------- two stored payments ---
\* A second payment is created (createPayment with a new key) while
\* processPayment is called on the stored payment and on the new one.
SecondPayment == NewId(1)

ProcessedIds == {"p1", SecondPayment}

NextTwoPayments ==
  \/ CreateLookup(1, "k1")
  \/ CreateSave(1)
  \/ CreateFees(1)
  \/ \E r \in Runs, p \in ProcessedIds : Start(r, p)
  \/ \E r \in Runs : TxRead(r)
  \/ \E r \in Runs : TxCommit(r)
  \/ \E r \in Runs : Onramp(r)
  \/ \E r \in Runs : Conversion(r)
  \/ \E r \in Runs : Offramp(r)
  \/ \E r \in Runs : Refund(r)

SpecTwoPayments == Init /\ [][NextTwoPayments]_vars

\* ------------------------------------------------- webhookRateLimit ------
\* now > data.resetTime: the entry is deleted before the request is looked at.
Expired(now, data) == data # NoEntry /\ now > data.resetTime

\* current.count >= maxAttempts
LimitReachedAfter(current) == current.count > maxAttempts

LimitReached(current) == current.count >= maxAttempts

\* The Map after the loop that deletes the expired entries.
CleanedUp(now) ==
  [ip \in ClientIps |->
     IF Expired(now, ipAttempts[ip]) THEN NoEntry ELSE ipAttempts[ip]]

\* The requests passed on for a client, counted from the instant of the
\* first one; a request more than windowMs after that instant starts the
\* count again.
PassedOnAt(now, was) ==
  IF was.n = 0 \/ now > was.since + windowMs
  THEN [since |-> now, n |-> 1]
  ELSE [was EXCEPT !.n = @ + 1]

\* A request from clientIp reaches router.use(webhookRateLimit()) at
\* Date.now() = now: next() is called, or 429 is answered.
WebhookRateLimit(clientIp, now) ==
  /\ now >= rateNow
  /\ clientIp = OtherIp => rateSeen < MaxOtherRequests
  /\ rateNow' = now
  /\ rateSeen' = IF clientIp = OtherIp THEN rateSeen + 1 ELSE rateSeen
  /\ LET cleaned == CleanedUp(now)
         current == cleaned[clientIp]
     IN IF current = NoEntry
        THEN /\ ipAttempts' = [cleaned EXCEPT ![clientIp] =
                                 [count |-> 1, resetTime |-> now + windowMs]]
             /\ rateLast' = [ip |-> clientIp, now |-> now,
                             status |-> PassedOn]
             /\ ratePassed' = [ratePassed EXCEPT ![clientIp] =
                                 PassedOnAt(now, @)]
        ELSE IF LimitReached(current)
        THEN /\ ipAttempts' = cleaned
             /\ rateLast' = [ip |-> clientIp, now |-> now, status |-> 429]
             /\ UNCHANGED ratePassed
        ELSE /\ ipAttempts' = [cleaned EXCEPT ![clientIp].count = @ + 1]
             /\ rateLast' = [ip |-> clientIp, now |-> now,
                             status |-> PassedOn]
             /\ ratePassed' = [ratePassed EXCEPT ![clientIp] =
                                 PassedOnAt(now, @)]
  /\ UNCHANGED <<dbVars, dispatched, runVars, histVars, inVars, whVars,
                 sigVars, gwVars, regVars, crVars>>

NextRateLimit ==
  \E clientIp \in ClientIps, now \in RateClocks :
    WebhookRateLimit(clientIp, now)

SpecRateLimit == Init /\ [][NextRateLimit]_vars


\* ------------------------------------------------- properties: vocabulary
\* The provider calls of run r to operation op, in order.
CallsTo(r, op) == SelectSeq(calls[r], LAMBDA c : c.op = op)

\* The step records of run r named n.
StepsNamed(r, n) == SelectSeq(steps[r], LAMBDA st : st.step = n)

StepDone(r, n) ==
  \E i \in 1..Len(steps[r]) :
    steps[r][i].step = n /\ steps[r][i].status = "completed"

StepFailed(r, n) ==
  \E i \in 1..Len(steps[r]) :
    steps[r][i].step = n /\ steps[r][i].status = "failed"

\* Run r is past its last provider step and has only to store FAILED.
Failing(r) == pc[r] \in {"w_failed", "tx_failed", "done"}

\* Run r collected the charge and a later step failed.
CollectedThenFailed(r) ==
  /\ StepDone(r, "onramp_stripe")
  /\ StepFailed(r, "currency_conversion") \/ StepFailed(r, "offramp_transfer")

\* Run r returned FAILED and the row it stored last is FAILED.
EndedFailed(r) ==
  /\ result[r].kind = "returned"
  /\ result[r].status = "FAILED"
  /\ wrote[r] # <<>>
  /\ Last(wrote[r]).status = "FAILED"

AllowedTransitions ==
  { <<"PENDING", "PROCESSING">>, <<"PROCESSING", "COMPLETED">>,
    <<"PROCESSING", "FAILED">> }

\* ------------------------------------------------------------- claims ---
\* C1: every change of Payment.status is PENDING->PROCESSING,
\* PROCESSING->COMPLETED or PROCESSING->FAILED, whoever writes it
\* (processPayment, the provider-webhook handlers through
\* PaymentService.updatePaymentStatus).  The handlers store their status
\* whatever the stored one is, so this is violated.
C1_OnlyAllowedTransitions ==
  [][\A p \in DOMAIN payments :
       payments'[p].status # payments[p].status =>
         <<payments[p].status, payments'[p].status>> \in AllowedTransitions]_vars

\* C2: of two processPayment calls that both find the same payment PENDING,
\* only one stores PROCESSING and only one issues provider calls.  The check
\* of the status and the write are separate steps, so this is violated.
C2_ExactlyOneProceeds ==
  \A r1, r2 \in Runs :
    (r1 # r2 /\ pay[r1] = pay[r2] /\ atCall[r1] = "PENDING"
       /\ atCall[r2] = "PENDING")
    => /\ ~(wrote[r1] # <<>> /\ wrote[r2] # <<>>)
       /\ ~(calls[r1] # <<>> /\ calls[r2] # <<>>)

\* C3: a processPayment call that finds no payment, or a payment whose
\* stored status is not PENDING (COMPLETED and FAILED included), throws and
\* has no effect: no provider call, no status write, no PaymentEvent or
\* Transaction row, at any later time either.
C3_RejectedWithoutEffect ==
  \A r \in Runs :
    (pc[r] # "idle" /\ atCall[r] # "PENDING")
    => /\ pc[r] = "thrown"
       /\ result[r].kind = "threw"
       /\ result[r].error = ValidationError(atCall[r])
       /\ calls[r] = <<>>
       /\ wrote[r] = <<>>
       /\ rows[r] = 0
       /\ \A t \in transactions : t.id[1] # r

\* C3 witness: a call made after another run completed the payment is
\* rejected, and so is a call for an id no payment has.
C3_Witness ==
  \E r, q \in Runs :
    /\ pc[q] = "done" /\ result[q].status = "COMPLETED"
    /\ pc[r] = "thrown" /\ atCall[r] = "COMPLETED" /\ pay[r] = pay[q]

\* C4: when createCharge succeeded and the conversion or createTransfer
\* failed, the run makes exactly one refundCharge call, for the chargeId its
\* collection returned, before it stores FAILED; it returns FAILED whatever
\* the refund's outcome.
C4_OneRefundOfOwnCharge ==
  \A r \in Runs :
    (CollectedThenFailed(r) /\ Failing(r))
    => /\ Len(CallsTo(r, "refundCharge")) = 1
       /\ CallsTo(r, "refundCharge")[1].arg
            = StepsNamed(r, "onramp_stripe")[1].chargeId
       /\ CallsTo(r, "refundCharge")[1].arg = ChargeId(r)
       /\ pc[r] = "done" => EndedFailed(r)

\* C4 witness: a run whose conversion failed has returned, its one refund
\* having failed.
C4_Witness ==
  \E r \in Runs :
    /\ pc[r] = "done"
    /\ StepDone(r, "onramp_stripe") /\ StepFailed(r, "currency_conversion")
    /\ Len(CallsTo(r, "refundCharge")) = 1
    /\ CallsTo(r, "refundCharge")[1].outcome = "fail"

\* C5: when createCharge fails (or throws), the run never calls refundCharge
\* and it ends FAILED.
C5_NoRefundWithoutCharge ==
  \A r \in Runs :
    StepFailed(r, "onramp_stripe")
    => /\ CallsTo(r, "refundCharge") = <<>>
       /\ Failing(r)
       /\ pc[r] = "done" => EndedFailed(r)

C5_Witness ==
  \E r \in Runs :
    /\ pc[r] = "done" /\ StepFailed(r, "onramp_stripe")
    /\ CallsTo(r, "createCharge")[1].outcome = "fail"

\* C6: a run one of whose steps failed returns success = false, status
\* FAILED and the failing step's reason as error (the reason the provider
\* gave: recipient_bank_rejected for such a transfer), and the failing step
\* is the last of result.steps and the only one with outcome failed.
C6_FailureResult ==
  \A r \in Runs :
    (pc[r] = "done" /\ \E i \in 1..Len(steps[r]) : steps[r][i].status = "failed")
    => LET res == result[r]
           n == Len(res.steps)
       IN /\ res.kind = "returned"
          /\ res.success = FALSE
          /\ res.status = "FAILED"
          /\ res.steps = steps[r]
          /\ res.steps[n].status = "failed"
          /\ \A i \in 1..(n - 1) : res.steps[i].status = "completed"
          /\ res.error = res.steps[n].error
          /\ res.steps[n].step = "onramp_stripe"
               => res.error = CallsTo(r, "createCharge")[1].error
          /\ res.steps[n].step = "currency_conversion"
               => res.error \in {o.error : o \in ConversionOutcomes \ {[kind |-> "ok", error |-> None]}}
          /\ res.steps[n].step = "offramp_transfer"
               => res.error = CallsTo(r, "createTransfer")[1].error

C6_Witness ==
  \E r \in Runs :
    /\ pc[r] = "done"
    /\ CallsTo(r, "createTransfer") # <<>>
    /\ CallsTo(r, "createTransfer")[1].error = "recipient_bank_rejected"
    /\ result[r].error = "recipient_bank_rejected"

\* C7: when collection, conversion and transfer all succeed the run goes on
\* to store COMPLETED; it returns success = true and status COMPLETED, every
\* record of result.steps has outcome completed, and the row it stored has
\* status COMPLETED and a completion time.
C7_SuccessResult ==
  \A r \in Runs :
    StepDone(r, "offramp_transfer")
    => /\ StepDone(r, "onramp_stripe") /\ StepDone(r, "currency_conversion")
       /\ pc[r] \in {"w_completed", "tx_completed", "done"}
       /\ pc[r] = "done"
            => /\ result[r].kind = "returned"
               /\ result[r].success = TRUE
               /\ result[r].status = "COMPLETED"
               /\ result[r].error = None
               /\ result[r].steps = steps[r]
               /\ \A i \in 1..Len(result[r].steps) :
                    result[r].steps[i].status = "completed"
               /\ Last(wrote[r]) = [status |-> "COMPLETED", completedAt |-> TRUE]

C7_Witness ==
  \E r \in Runs :
    /\ pc[r] = "done" /\ result[r].success
    /\ payments[pay[r]].status = "COMPLETED" /\ payments[pay[r]].completedAt

\* C8: a refund that reports failure or throws does not stop the run: it
\* goes on to store FAILED and returns the failure of the step that failed;
\* it never ends by throwing and never ends having stored PROCESSING last.
C8_RefundFailureDoesNotBlock ==
  \A r \in Runs :
    (CallsTo(r, "refundCharge") # <<>>
       /\ CallsTo(r, "refundCharge")[1].outcome \in {"fail", "throw"})
    => /\ Failing(r)
       /\ pc[r] = "done"
            => /\ EndedFailed(r)
               /\ result[r].success = FALSE
               /\ result[r].error = Last(steps[r]).error
               /\ Last(steps[r]).step \in {"currency_conversion", "offramp_transfer"}

C8_Witness ==
  \E r \in Runs :
    /\ pc[r] = "done"
    /\ CallsTo(r, "refundCharge") # <<>>
    /\ CallsTo(r, "refundCharge")[1].outcome = "throw"
    /\ payments[pay[r]].status = "FAILED"

\* C9: the step of a run that attempts the refund leaves a record of its
\* outcome: an entry appended to the run's steps, or a row stored for the
\* payment.  refundOnramp only logs, so this is violated.
C9_RefundRecorded ==
  [][\A r \in Runs :
       (pc[r] = "refund" /\ pc'[r] # "refund")
       => \/ Len(steps'[r]) > Len(steps[r])
          \/ transactions' # transactions
          \/ Len(paymentEvents') > Len(paymentEvents)]_vars

\* C10: a run that has stored PROCESSING has had payment.processing sent
\* for its payment, and a run that returned has had the event of its final
\* status sent.  processPayment never calls the dispatcher, so this is
\* violated.
C10_EventsEmitted ==
  \A r \in Runs :
    /\ wrote[r] # <<>>
         => \E i \in 1..Len(dispatched) :
              /\ dispatched[i].paymentId = pay[r]
              /\ dispatched[i].type = PAYMENT_PROCESSING
    /\ pc[r] = "done"
         => \E i \in 1..Len(dispatched) :
              /\ dispatched[i].paymentId = pay[r]
              /\ dispatched[i].type =
                   IF result[r].status = "COMPLETED" THEN PAYMENT_COMPLETED
                   ELSE PAYMENT_FAILED

\* Run r has ended, by returning or by throwing, after passing validation.
Ended(r) == pc[r] \in {"done", "thrown"} /\ atCall[r] = "PENDING"

\* The stages run r attempted: validation, the PROCESSING write, every
\* provider call, and the conversion, which follows a completed collection.
StagesAttempted(r) ==
  2 + Len(calls[r]) + (IF StepDone(r, "onramp_stripe") THEN 1 ELSE 0)

\* C11: when a run has ended, however it ended (a status write that threw
\* included), the caller has the run's step records, one for each stage the
\* run attempted, in the order they were appended.  A run that throws hands
\* the caller no step, and a refund has no step record at all, so this is
\* violated.
C11_EveryStageRecorded ==
  \A r \in Runs :
    Ended(r)
    => /\ result[r].steps = steps[r]
       /\ Len(result[r].steps) = StagesAttempted(r)

\* C12: a run that stored PROCESSING and has ended, by return or by
\* exception, stored COMPLETED or FAILED after it: it does not end with
\* PROCESSING as its last write.  A failed status write ends the run with
\* the payment left PROCESSING, so this is violated.
C12_NoRunEndsInProcessing ==
  \A r \in Runs :
    (Ended(r) /\ wrote[r] # <<>>)
    => Last(wrote[r]).status \in {"COMPLETED", "FAILED"}

\* C13: a payment stored CANCELLED keeps that status whatever processPayment
\* calls interleave with the cancellation, and CANCELLED is entered from
\* PENDING only.  The PROCESSING write does not look at the stored status,
\* so this is violated.
C13_CancelledIsNeverProcessed ==
  [][\A p \in DOMAIN payments :
       /\ payments[p].status = "CANCELLED"
            => payments'[p].status = "CANCELLED"
       /\ (payments'[p].status = "CANCELLED"
             /\ payments[p].status # "CANCELLED")
            => payments[p].status = "PENDING"]_vars

\* -------------------------------------- webhook dispatcher: vocabulary ---
\* The timers pending for endpoint e.
TimersOf(e) == {t \in timers : t.endpoint = e}

\* Every attempt at endpoint e so far was answered HTTP 500.
Always500(e) ==
  /\ attempts[e] # <<>>
  /\ \A i \in 1..Len(attempts[e]) : attempts[e][i].httpStatus = 500

\* Every attempt at endpoint e so far failed.
AlwaysFailed(e) ==
  /\ attempts[e] # <<>>
  /\ \A i \in 1..Len(attempts[e]) : ~attempts[e][i].delivered

\* Nothing is under way or scheduled for endpoint e.
Quiet(e) == TimersOf(e) = {} /\ inflight[e] = NoRequest

\* The delays of the retries scheduled for endpoint e, in order.
DelaysOf(e) == [i \in 1..Len(scheduled[e]) |-> scheduled[e][i].delay]

\* C14: at an endpoint that answers every attempt with HTTP 500 the
\* delivery records are numbered 1, 2, ... in order, one per attempt, never
\* more than 5; until the fifth exactly one further attempt is under way or
\* scheduled (the next number), and after the fifth none is.
C14_FiveAttempts ==
  \A e \in EndpointIds :
    Always500(e)
    => LET k == Len(attempts[e])
       IN /\ k <= 5
          /\ \A i \in 1..k : attempts[e][i].attemptNumber = i
          /\ \A i \in 1..Len(requests[e]) : requests[e][i].attempt = i
          /\ k = 5 => Quiet(e) /\ Len(requests[e]) = 5
          /\ k < 5 =>
               \/ /\ inflight[e] = NoRequest
                  /\ \E t \in timers :
                       TimersOf(e) = {t} /\ t.attempt = k + 1
               \/ /\ TimersOf(e) = {}
                  /\ inflight[e].attempt = k + 1

\* C14 witness: five records, all HTTP 500, at some endpoint.
C14_Witness ==
  \E e \in EndpointIds : Always500(e) /\ Len(attempts[e]) = 5 /\ Quiet(e)

\* Endpoint e failed five attempts: its delivery is exhausted.
Exhausted(e) == AlwaysFailed(e) /\ Len(attempts[e]) = maxRetries

\* C15 as stated: a delivery that failed on every attempt has applied the
\* delays 1000, 5000, 15000, 60000 and 300000 ms, in that order.  The fifth
\* failure schedules nothing, so 300000 is never applied.
C15_FiveDelays ==
  \A e \in EndpointIds : Exhausted(e) => DelaysOf(e) = retryDelays

\* C15 amended: the retry scheduled after failed attempt n (n = 1..4) is
\* delayed by the n-th value of 1000, 5000, 15000, 60000, 300000 ms; a
\* delivery that failed on every attempt has applied 1000, 5000, 15000 and
\* 60000 ms, in that order, and no delay follows the fifth failure; the
\* delay of an attempt number past the end of the sequence is its last value.
C15_RetryDelays ==
  /\ \A e \in EndpointIds :
       /\ Len(scheduled[e]) <= maxRetries - 1
       /\ \A i \in 1..Len(scheduled[e]) :
            scheduled[e][i] = [after |-> i, delay |-> retryDelays[i]]
       /\ \A t \in TimersOf(e) : t.delay = retryDelays[t.attempt - 1]
       /\ Exhausted(e) => DelaysOf(e) = <<1000, 5000, 15000, 60000>>
  /\ \A n \in 1..5 : RetryDelay(n) = retryDelays[n]
  /\ \A n \in 6..8 : RetryDelay(n) = 300000

\* C15 witness: an exhausted delivery, four retries having been scheduled.
C15_Witness ==
  \E e \in EndpointIds :
    Exhausted(e) /\ Len(requests[e]) = 5 /\ Len(scheduled[e]) = 4

\* The retries scheduled after attempt n at endpoint e.
ScheduledAfter(e, n) ==
  SelectSeq(scheduled[e], LAMBDA x : x.after = n)

\* C16: a failed delivery record has nextRetryAt exactly when its
\* attemptNumber is below 5, and a retry was scheduled after an attempt
\* exactly when its record has nextRetryAt (one retry, with that delay); the
\* record of a fifth failed attempt has none and nothing follows it; a
\* delivered record has no nextRetryAt and nothing follows it.
C16_NextRetryAt ==
  \A e \in EndpointIds :
    \A i \in 1..Len(attempts[e]) :
      LET rec == attempts[e][i]
          n == rec.attemptNumber
      IN /\ ~rec.delivered =>
              (rec.nextRetryAt # NoRetryAt <=> n < maxRetries)
         /\ rec.delivered => rec.nextRetryAt = NoRetryAt
         /\ rec.nextRetryAt # NoRetryAt
              => ScheduledAfter(e, n) = <<[after |-> n,
                                          delay |-> rec.nextRetryAt]>>
         /\ rec.nextRetryAt = NoRetryAt
              => /\ ScheduledAfter(e, n) = <<>>
                 /\ i = Len(attempts[e])
                 /\ Quiet(e)

\* C16 witness: an exhausted delivery next to a delivered one.
C16_Witness ==
  \E e1, e2 \in EndpointIds :
    /\ Exhausted(e1) /\ attempts[e1][5].httpStatus = 500
    /\ attempts[e2] # <<>> /\ Last(attempts[e2]).delivered
    /\ Len(attempts[e2]) > 1

\* C17: for an event that is sent, the record of each attempt says
\* delivered exactly when axios.post gave a response with a status in
\* 200..299; any other status (404 and 500 alike) and a network error or
\* timeout give a failed record, after which a retry is scheduled when the
\* attempt number is below 5.
C17_DeliveredIff2xx ==
  \A e \in EndpointIds :
    ~TooLarge(event)
    => /\ Len(attempts[e]) = Len(received[e])
       /\ \A i \in 1..Len(attempts[e]) :
            LET rec == attempts[e][i]
                resp == received[e][i]
            IN /\ rec.delivered <=>
                    (resp.kind = "response" /\ resp.status \in 200..299)
               /\ rec.httpStatus =
                    IF resp.kind = "response" THEN resp.status ELSE NoStatus
               /\ (~rec.delivered /\ rec.attemptNumber < 5)
                    => Len(ScheduledAfter(e, rec.attemptNumber)) = 1
               /\ rec.delivered => ScheduledAfter(e, rec.attemptNumber) = <<>>

\* C17 witness: a 404, a timeout and then a 200 at one endpoint.
C17_Witness ==
  \E e \in EndpointIds :
    /\ Len(attempts[e]) = 3 /\ Len(received[e]) = 3
    /\ received[e][1].status = 404 /\ ~attempts[e][1].delivered
    /\ received[e][2].kind = "throw" /\ ~attempts[e][2].delivered
    /\ received[e][3].status = 200 /\ attempts[e][3].delivered

\* C18: for an event whose serialized payload is over 1 MiB (1,048,576
\* bytes on the wire) no HTTP request is ever issued, on the first attempt
\* or on a retry, at any endpoint.
C18_OversizeNeverSent ==
  event.bytes > 1048576
  => \A e \in EndpointIds :
       requests[e] = <<>> /\ inflight[e] = NoRequest /\ received[e] = <<>>

\* C19: every HTTP request made for the event, first attempt or retry, at
\* every endpoint, carries the event sendPaymentWebhook built (same id,
\* type and data), and so does every retry still scheduled.
C19_SameEventOnRetry ==
  \A e \in EndpointIds :
    /\ \A i \in 1..Len(requests[e]) : requests[e][i].event = event
    /\ \A t \in TimersOf(e) : t.event = event
    /\ \A i, j \in 1..Len(requests[e]) :
         requests[e][i].event.id = requests[e][j].event.id

\* C19 witness: five requests were made at one endpoint and two at another.
C19_Witness ==
  \E e1, e2 \in EndpointIds :
    e1 # e2 /\ Len(requests[e1]) = 5 /\ Len(requests[e2]) >= 2


\* What the dispatcher holds for one endpoint: its records, the requests
\* made to it, the request awaiting its response, the responses, the
\* retries scheduled and the retry timers pending.
EndpointState(e) ==
  <<attempts[e], requests[e], inflight[e], received[e], scheduled[e],
    TimersOf(e)>>

\* The loop of sendPaymentWebhook has reached every endpoint before its
\* position, whether the first attempt there succeeded or not, and none
\* after it.
LoopReachesAll ==
  /\ loopAt <= Len(endpoints) + 1
  /\ \A i \in 1..Len(endpoints) :
       /\ (i < loopAt) <=> attempts[endpoints[i]] # <<>>
       /\ (i > loopAt) => EndpointState(endpoints[i])
                          = <<(<<>>), (<<>>), NoRequest, (<<>>), (<<>>), {}>>
  /\ \A e \in EndpointIds :
       \A i \in 1..Len(attempts[e]) : attempts[e][i].attemptNumber = i

\* A step touches the state of one endpoint at most, and only adds to its
\* records.
OneEndpointPerStep ==
  /\ Cardinality({e \in EndpointIds : EndpointState(e)' # EndpointState(e)})
       <= 1
  /\ \A e \in EndpointIds :
       /\ Len(attempts'[e]) >= Len(attempts[e])
       /\ SubSeq(attempts'[e], 1, Len(attempts[e])) = attempts[e]

\* C20: with several endpoints subscribed to the event, each endpoint gets
\* its first attempt whatever happened at the endpoints before it, attempt
\* numbers at each endpoint run 1, 2, ... on their own, and a response,
\* failure, retry or exhaustion at one endpoint leaves the records,
\* requests and retries of every other endpoint as they were.
C20_EndpointsIndependent == []LoopReachesAll /\ [][OneEndpointPerStep]_vars

\* C20 witness: of two endpoints the first failed five times and is
\* exhausted, the second was delivered on its first attempt.
C20_Witness ==
  /\ Len(endpoints) = 2
  /\ Exhausted(endpoints[1]) /\ Len(attempts[endpoints[1]]) = 5
  /\ Len(attempts[endpoints[2]]) = 1 /\ attempts[endpoints[2]][1].delivered


\* Endpoint e is in the list the event is sent to.
Subscribed(e) == \E i \in 1..Len(endpoints) : endpoints[i] = e

\* A delivered attempt is recorded for endpoint e.
Delivered(e) == \E i \in 1..Len(attempts[e]) : attempts[e][i].delivered

\* The number of failed attempts recorded for endpoint e.
FailedCount(e) ==
  Cardinality({i \in 1..Len(attempts[e]) : ~attempts[e][i].delivered})

\* A delivery that has stopped (nothing under way, nothing scheduled) after
\* a first attempt either delivered or failed five times.
NeverAbandoned ==
  \A e \in EndpointIds :
    (attempts[e] # <<>> /\ Quiet(e)) => Delivered(e) \/ FailedCount(e) = 5

\* C21: for every endpoint the event is handed to, provided the loop, the
\* HTTP client and the retry timers run, eventually a delivered attempt is
\* recorded or five failed attempts have been made; and a delivery never
\* stops before one of the two.
C21_AtLeastOnceUpToCeiling ==
  /\ \A e \in EndpointIds :
       [](Subscribed(e) => <>(Delivered(e) \/ FailedCount(e) = 5))
  /\ []NeverAbandoned

\* C21 witness: one subscribed endpoint was delivered on a retry after
\* failures, another failed five times.
C21_Witness ==
  \E e1, e2 \in EndpointIds :
    /\ Subscribed(e1) /\ Subscribed(e2)
    /\ Delivered(e1) /\ FailedCount(e1) >= 2 /\ Quiet(e1)
    /\ ~Delivered(e2) /\ FailedCount(e2) = 5 /\ Quiet(e2)


\* No request, record or retry exists for any endpoint.
NothingAttempted ==
  /\ timers = {}
  /\ \A e \in EndpointIds :
       /\ requests[e] = <<>> /\ inflight[e] = NoRequest
       /\ attempts[e] = <<>> /\ scheduled[e] = <<>>

\* C22: the promise of sendPaymentWebhook is never rejected, with the
\* payment missing, the payload too large, the HTTP send failing or the
\* database failing its read or its record writes: once the loop over the
\* endpoints is over the promise is resolved; and when the payment was not
\* found (or could not be read) no event is built and no attempt is made.
C22_FireAndForget ==
  /\ sendResult.status # "rejected"
  /\ sendResult.status = "resolved" <=> (loopAt > 0 /\ loopAt > Len(endpoints))
  /\ sendResult.caught # None =>
       /\ sendResult.status = "resolved"
       /\ event = NoEvent /\ endpoints = <<>> /\ dispatched = <<>>
       /\ NothingAttempted

\* C22 witness: the call returned after a network error at the first of two
\* endpoints, with the record writes failing.
C22_Witness ==
  /\ sendResult.status = "resolved" /\ ~dbUp
  /\ Len(endpoints) = 2
  /\ Len(received[endpoints[1]]) >= 1
  /\ received[endpoints[1]][1].kind = "throw"
  /\ attempts[endpoints[1]] = <<>>

\* The call returned without an attempt because the payment does not exist.
C22_WitnessMissing ==
  sendResult = [status |-> "resolved", caught |-> "Payment not found"]


\* ---------------------------------------------- properties: signatures ---
\* A verifySignature call has been made.
Verifying == verified # NoVerified

\* The call presents what was signed: payload, secret, timestamp, signature.
AsSigned ==
  /\ verified.payload = signed.payload
  /\ verified.secret = signed.secret
  /\ verified.timestamp = signed.timestamp
  /\ verified.signature = signed.signature

\* The timestamp of the call spells a number of seconds, d away from the
\* verifier's clock.
Age ==
  LET t == ParseInt(verified.timestamp).value
  IN IF verified.now >= t THEN verified.now - t ELSE t - verified.now

Numeric == ~ParseInt(verified.timestamp).isNaN

\* C23: a verifySignature call that presents the payload, secret, timestamp
\* and signature of a message signed by generateSignature(ts.payload,
\* secret) or by generateWebhookHeaders, with the timestamp within 300
\* seconds of the verifier's clock, is valid; a call is invalid when its
\* timestamp is 301 seconds behind the clock, when the signature has a
\* character altered, dropped or added, or when the payload or the secret
\* is not the one signed (same timestamp and signature).
C23_SignVerifyRoundTrip ==
  Verifying =>
    /\ (AsSigned /\ Numeric /\ Age <= 300) => verified.result.isValid
    /\ (Numeric /\ ParseInt(verified.timestamp).value + 301 = verified.now)
         => ~verified.result.isValid
    /\ (verified.timestamp = signed.timestamp
        /\ verified.payload = signed.payload
        /\ verified.secret = signed.secret
        /\ verified.signature # signed.signature)
         => ~verified.result.isValid
    /\ (verified.timestamp = signed.timestamp
        /\ verified.signature = signed.signature
        /\ (verified.payload # signed.payload
            \/ verified.secret # signed.secret))
         => ~verified.result.isValid

\* C23 witness: headers made by generateWebhookHeaders were verified 300
\* seconds later and found valid.
C23_Witness ==
  /\ Verifying /\ AsSigned /\ signed.by = "headers"
  /\ verified.now = ParseInt(signed.timestamp).value + 300
  /\ verified.result.isValid

\* A signature with its last character altered was presented and refused.
C23_WitnessAltered ==
  /\ Verifying /\ Numeric /\ Age = 0
  /\ verified.payload = signed.payload /\ verified.secret = signed.secret
  /\ verified.timestamp = signed.timestamp
  /\ verified.signature = Altered(signed.signature, Len(signed.signature))
  /\ ~verified.result.isValid

\* C24: a verifySignature call whose timestamp is more than 300 seconds
\* from the verifier's clock, behind it or ahead of it, is invalid and
\* carries an error text, the signature being correct or not; a correctly
\* signed message exactly 300 seconds away is valid, one 301 seconds away
\* is not.
C24_ReplayWindow ==
  Verifying =>
    /\ (Numeric /\ Age > 300)
         => ~verified.result.isValid /\ verified.result.error # None
    /\ (Numeric /\ AsSigned /\ Age = 300) => verified.result.isValid
    /\ (Numeric /\ AsSigned /\ Age = 301) => ~verified.result.isValid

\* C24 witness: a correctly signed message stamped 301 seconds ahead of the
\* verifier's clock was refused.
C24_Witness ==
  /\ Verifying /\ AsSigned /\ Numeric
  /\ ParseInt(verified.timestamp).value = verified.now + 301
  /\ ~verified.result.isValid
  /\ verified.result.error = "Webhook timestamp too old"


\* ---------------------------------------- properties: inbound webhooks ---
\* Request h reached a route of the webhook router.
Arrived(h) == hin[h] # NoWebhookRequest

\* Request h lacks a header its route requires, or its body.
LacksHeaderOrBody(h) ==
  \/ hin[h].body = None
  \/ hin[h].timestamp = None
  \/ hin[h].route = "stripe" /\ ~hin[h].header
  \/ hin[h].route = "offramp" /\ hin[h].signature = <<>>

\* The signature request h carries verifies for its body, its timestamp and
\* its route's secret at the time it arrived.
Verifies(h) ==
  /\ ~LacksHeaderOrBody(h)
  /\ VerifySignatureResult(hin[h].body, hin[h].signature,
                           RouteSecret(hin[h].route), hin[h].timestamp, 300,
                           hin[h].now).isValid

\* No handler has touched the payments, the payment events or the
\* dispatcher.
NothingChanged ==
  /\ \A p \in DOMAIN payments :
       payments[p] = [status |-> "PENDING", completedAt |-> FALSE,
                      externalReference |-> FALSE]
  /\ paymentEvents = <<>> /\ dispatched = <<>>
  /\ \A h \in Inbounds : hpc[h] = "idle"

\* C25: a handler runs only for a request whose signature verified; a
\* request lacking a required header or its body is answered 400, one with
\* its headers and body but a signature that does not verify (wrong or
\* stale) is answered 401, and neither changes any payment, payment event
\* or dispatcher state.
C25_RejectedUnlessVerified ==
  \A h \in Inbounds :
    Arrived(h) =>
      /\ hpc[h] # "idle" => Verifies(h)
      /\ LacksHeaderOrBody(h) => hres[h] = 400
      /\ (~LacksHeaderOrBody(h) /\ ~Verifies(h)) => hres[h] = 401
      /\ ~Verifies(h) => NothingChanged


\* ----------------------------------------------- properties: admission ---
\* C26: a registerWebhookEndpoint call returns an endpoint only for a URL
\* that parses with scheme http or https; in production only for an https
\* URL whose host is in no private or loopback address range; and a call
\* that is refused raises 'Invalid webhook URL' with no endpoint and no
\* secret made.
C26_UrlAdmission ==
  \A i \in 1..Len(registered) :
    LET r == registered[i]
    IN /\ r.outcome = "endpoint"
            => r.url.parses /\ r.url.protocol \in {"http:", "https:"}
       /\ (r.outcome = "endpoint" /\ r.env = "production")
            => r.url.protocol = "https:" /\ r.url.range = "public"
       /\ r.outcome # "endpoint"
            => r.outcome = "Invalid webhook URL" /\ ~r.secret


\* ------------------------------------------- properties: createPayment ---
\* createPayment call c has returned or thrown.
CreateEnded(c) == creates[c].pc \in {"done", "thrown"}

C28_OnePaymentPerKey ==
  \A key \in Keys :
    /\ Cardinality(WithKey(key)) <= 1
    /\ \A p \in WithKey(key) : GetPaymentByIdempotencyKey(key) = p
    /\ Cardinality({c \in Creates : creates[c].key = key
                                    /\ creates[c].madePayments > 0}) <= 1

\* C28 witness: two calls with the same new key both found it absent; one
\* stored the payment and the other was refused by the unique index.
C28_Witness ==
  \E a, b \in Creates :
    /\ a # b /\ creates[a].key = "k1" /\ creates[b].key = "k1"
    /\ creates[a].stored = None /\ creates[b].stored = None
    /\ creates[a].pc = "done" /\ creates[b].pc = "thrown"
    /\ WithKey("k1") = {NewId(a)}


\* C29: every status_changed row whose newStatus is PROCESSING has the
\* oldStatus PENDING: the write that sets PROCESSING finds the payment
\* PENDING, whatever the interleaving of the runs on the payment.
C29_ProcessingOnlyFromPending ==
  \A i \in DOMAIN paymentEvents :
    (paymentEvents[i].eventType = "status_changed"
       /\ paymentEvents[i].newStatus = "PROCESSING")
      => paymentEvents[i].oldStatus = "PENDING"


\* Run r has pushed the step record of this name with this status.
HasStep(r, name, status) ==
  \E i \in DOMAIN steps[r] :
    steps[r][i].step = name /\ steps[r][i].status = status

\* Run r has reached the step of this name: it is about to run or its
\* record is pushed.
Reached(r, at, name) ==
  pc[r] = at \/ \E i \in DOMAIN steps[r] : steps[r][i].step = name

\* Run r has made the provider call op.
Called(r, op) == \E i \in DOMAIN calls[r] : calls[r][i].op = op

\* The order of the steps of every run, in each state.
StepsInOrder ==
  \A r \in Runs :
    /\ Reached(r, "conversion", "currency_conversion") =>
         /\ Len(calls[r]) >= 1
         /\ calls[r][1].op = "createCharge" /\ calls[r][1].outcome = "ok"
         /\ HasStep(r, "onramp_stripe", "completed")
         /\ Len(wrote[r]) >= 1 /\ wrote[r][1].status = "PROCESSING"
    /\ (pc[r] = "offramp" \/ Called(r, "createTransfer")) =>
         HasStep(r, "currency_conversion", "completed")
    /\ \A i \in DOMAIN wrote[r] :
         wrote[r][i].status \in {"COMPLETED", "FAILED"} =>
           /\ i = Len(wrote[r]) /\ pc[r] = "done"
           /\ wrote[r][i].status = "COMPLETED" =>
                Last(steps[r]) = Step("offramp_transfer", "completed",
                                      None, NoCharge)
           /\ wrote[r][i].status = "FAILED" =>
                /\ Last(steps[r]).status = "failed"
                /\ HasStep(r, "onramp_stripe", "completed") =>
                     Last(calls[r]).op = "refundCharge"

\* One step of a run at a time: a transition adds at most one provider
\* call, one step outcome or one status write to a run, a call is recorded
\* with its outcome before the next one is made, and a run that has ended
\* does nothing more.
OneStepAtATime ==
  \A r \in Runs :
    /\ Len(calls'[r]) <= Len(calls[r]) + 1
    /\ Len(wrote'[r]) <= Len(wrote[r]) + 1
    /\ Len(calls'[r]) + Len(wrote'[r]) <= Len(calls[r]) + Len(wrote[r]) + 1
    /\ \A i \in DOMAIN calls[r] : calls'[r][i] = calls[r][i]
    /\ \A i \in DOMAIN calls'[r] : calls'[r][i].outcome # None
    /\ pc[r] \in {"done", "thrown"} =>
         /\ calls'[r] = calls[r] /\ steps'[r] = steps[r]
         /\ wrote'[r] = wrote[r]

\* C30: within one processPayment run the conversion starts only after
\* createCharge has returned success and PROCESSING is written,
\* createTransfer is called only after the conversion has completed, the
\* terminal status is written last, after the outcome of the last step
\* (and of the refund, when there is one) is known, and the run makes its
\* provider calls one at a time.
C30_StrictlySequential == []StepsInOrder /\ [][OneStepAtATime]_vars

\* C30 witness: a run that went through every step and wrote COMPLETED,
\* and a run whose conversion failed, refunded and wrote FAILED.
C30_Witness ==
  \E r, q \in Runs :
    /\ pc[r] = "done" /\ Last(wrote[r]).status = "COMPLETED"
    /\ Len(calls[r]) = 2 /\ calls[r][2].op = "createTransfer"
    /\ pc[q] = "done" /\ Last(wrote[q]).status = "FAILED"
    /\ HasStep(q, "currency_conversion", "failed")
    /\ Last(calls[q]).op = "refundCharge"


\* The places in run r's call history where provider operation op was
\* invoked.
CallsOf(r, op) == {i \in DOMAIN calls[r] : calls[r][i].op = op}

ProviderOps == {"createCharge", "createTransfer", "refundCharge"}

\* C31: within one processPayment run each of createCharge, createTransfer
\* and refundCharge is invoked at most once, so a provider call that
\* failed is never made again by that run.
C31_NoInternalRetry ==
  \A r \in Runs :
    /\ \A i \in DOMAIN calls[r] : calls[r][i].op \in ProviderOps
    /\ \A op \in ProviderOps : Cardinality(CallsOf(r, op)) <= 1

\* C31 witness: a run has ended after createTransfer failed and the refund
\* failed too, each provider operation having been called once.
C31_Witness ==
  \E r \in Runs :
    /\ pc[r] = "done" /\ Len(calls[r]) = 3
    /\ calls[r][2].op = "createTransfer" /\ calls[r][2].outcome # "ok"
    /\ calls[r][3].op = "refundCharge" /\ calls[r][3].outcome # "ok"


\* The status_changed rows of payment b, in the order they were written.
StatusEventsOf(b) ==
  SelectSeq(paymentEvents,
            LAMBDA ev : ev.paymentId = b /\ ev.eventType = "status_changed")

\* The PaymentEvent rows of payment b.
EventsOf(b) == SelectSeq(paymentEvents, LAMBDA ev : ev.paymentId = b)

\* The Transaction rows of payment b.
TransactionsOf(b) == {t \in transactions : t.paymentId = b}

\* The runs called on payment b.
RunsOn(b) == {r \in Runs : pay[r] = b}

\* A step of run r (the run whose position moves) leaves every other stored
\* payment b as it was: its row, its audit events, its Transaction rows, and
\* the step records, writes, calls and result of the runs on b.
OwnPaymentOnly ==
  \A r \in Runs :
    pc'[r] # pc[r] =>
      \A b \in DOMAIN payments \ {pay'[r]} :
        /\ b \in DOMAIN payments' /\ payments'[b] = payments[b]
        /\ EventsOf(b)' = EventsOf(b)
        /\ TransactionsOf(b)' = TransactionsOf(b)
        /\ \A q \in RunsOn(b) :
             /\ steps'[q] = steps[q] /\ wrote'[q] = wrote[q]
             /\ calls'[q] = calls[q] /\ result'[q] = result[q]
             /\ pc'[q] = pc[q] /\ cur'[q] = cur[q]

\* The one run on a payment behaves as a run alone: the payment's
\* status_changed rows are the run's own writes, chained from PENDING, the
\* stored status is the run's last write, and the result the run returns
\* is the one its own step outcomes give.
SoleRunAsAlone ==
  \A q \in Runs :
    (pay[q] \in DOMAIN payments /\ RunsOn(pay[q]) = {q}) =>
      LET ev == StatusEventsOf(pay[q])
      IN /\ Len(ev) = Len(wrote[q])
         /\ \A i \in DOMAIN ev :
              /\ ev[i].newStatus = wrote[q][i].status
              /\ ev[i].oldStatus = IF i = 1 THEN "PENDING"
                                   ELSE wrote[q][i - 1].status
         /\ payments[pay[q]].status =
              IF wrote[q] = <<>> THEN "PENDING" ELSE Last(wrote[q]).status
         /\ pc[q] = "done" =>
              /\ result[q].kind = "returned"
              /\ result[q].status = payments[pay[q]].status
              /\ result[q].status = "COMPLETED" <=>
                   \A i \in DOMAIN steps[q] : steps[q][i].status = "completed"

\* C32: a processPayment run on one payment, whatever its outcome and
\* however it interleaves with a run on another payment, never changes the
\* other payment's status, step records or audit events, and the outcome
\* of the run on the other payment is the one it has alone.
C32_PaymentsIndependent == []SoleRunAsAlone /\ [][OwnPaymentOnly]_vars

\* C32 witness: the runs on the two payments have both ended, one
\* COMPLETED and the other FAILED after a refund.
C32_Witness ==
  \E r, q \in Runs :
    /\ pay[r] = "p1" /\ pay[q] = SecondPayment
    /\ pc[r] = "done" /\ pc[q] = "done"
    /\ payments["p1"].status = "FAILED"
    /\ Len(calls[r]) = 2 /\ calls[r][2].op = "refundCharge"
    /\ payments[SecondPayment].status = "COMPLETED"
    /\ Len(StatusEventsOf("p1")) = 2
    /\ Len(StatusEventsOf(SecondPayment)) = 2


\* The state of the retry timers of every endpoint.
TimersInStep ==
  \A e \in EndpointIds :
    /\ Cardinality(TimersOf(e)) <= 1
    /\ \A t \in TimersOf(e) :
         /\ t.event = event
         /\ inflight[e] = NoRequest
         /\ attempts[e] # <<>>
         /\ ~Last(attempts[e]).delivered
         /\ t.attempt = Last(attempts[e]).attemptNumber + 1
         /\ t.attempt = Len(attempts[e]) + 1
    /\ Delivered(e) =>
         /\ TimersOf(e) = {} /\ inflight[e] = NoRequest
         /\ Last(attempts[e]).delivered
         /\ \A i \in 1..Len(requests[e]) :
              requests[e][i].attempt <= Last(attempts[e]).attemptNumber
    /\ FailedCount(e) >= maxRetries =>
         /\ TimersOf(e) = {} /\ inflight[e] = NoRequest
         /\ FailedCount(e) = maxRetries

\* Once an endpoint has a delivered attempt nothing more is attempted for
\* it: no request, no record, no timer.
NothingAfterDelivered ==
  \A e \in EndpointIds :
    Delivered(e) =>
      /\ requests'[e] = requests[e] /\ attempts'[e] = attempts[e]
      /\ inflight'[e] = NoRequest /\ TimersOf(e)' = {}

\* C33: at any time at most one retry timer is pending per endpoint and
\* event, and it is for the attempt that follows the last failed one;
\* after a delivered attempt or the fifth failed attempt there is none,
\* and no attempt is made for an endpoint that has a delivered attempt.
C33_OneTimerPerDelivery == []TimersInStep /\ [][NothingAfterDelivered]_vars

\* C33 witness: the timer for the fifth attempt is pending at one endpoint
\* while the other endpoint has a delivered second attempt and no timer.
C33_Witness ==
  \E e, f \in EndpointIds :
    /\ \E t \in TimersOf(e) : t.attempt = maxRetries
    /\ Delivered(f) /\ Len(attempts[f]) = 2 /\ TimersOf(f) = {}


\* The record handleWebhookFailure stores for attempt n of an event the
\* size check refused.
TooLargeRecord(e, n) ==
  DeliveryRecord(e, event, n, NoStatus, "Webhook payload too large", FALSE,
                 NextRetryAt(n))

\* C34: an event whose serialization the size check refuses
\* (payload.length over maxPayloadSize) takes the path of a failed send:
\* no request is issued, each attempt stores a failed record with the
\* error of the check, a retry is scheduled after each attempt below the
\* fifth, and the delivery stops only after five recorded failed attempts.
C34_OversizeFailsLikeASend ==
  event.size > maxPayloadSize =>
    \A e \in EndpointIds :
      /\ requests[e] = <<>> /\ inflight[e] = NoRequest
      /\ Len(attempts[e]) <= maxRetries
      /\ \A n \in 1..Len(attempts[e]) : attempts[e][n] = TooLargeRecord(e, n)
      /\ Len(scheduled[e]) =
           IF Len(attempts[e]) = maxRetries THEN maxRetries - 1
           ELSE Len(attempts[e])
      /\ \A n \in 1..Len(scheduled[e]) : scheduled[e][n].after = n
      /\ (attempts[e] # <<>> /\ TimersOf(e) = {}) =>
           Len(attempts[e]) = maxRetries

\* C34 witness: an event over the limit has been given up at one endpoint
\* after five failed attempts while the other endpoint waits for its third.
C34_Witness ==
  /\ event.size > maxPayloadSize
  /\ \E e, f \in EndpointIds :
       /\ Len(attempts[e]) = maxRetries /\ TimersOf(e) = {}
       /\ attempts[e][maxRetries].error = "Webhook payload too large"
       /\ Len(attempts[f]) = 2
       /\ \E t \in TimersOf(f) : t.attempt = 3


\* C35: a verifySignature call whose timestamp does not parse to a number
\* is never valid, matching signature or not.
C35_NonNumericRejected ==
  (Verifying /\ ~Numeric) => ~verified.result.isValid


\* A collection for payment p has failed, or one has been reversed: a run
\* on p had createCharge fail, or called refundCharge.
CollectionFailedOrReversed(p) ==
  \E q \in Runs :
    /\ pay[q] = p
    /\ StepFailed(q, "onramp_stripe") \/ CallsTo(q, "refundCharge") # <<>>

\* What each run did when it stored COMPLETED, and what it does after a
\* successful transfer.
CompletedByFullRun ==
  \A r \in Runs :
    /\ (\E i \in 1..Len(wrote[r]) : wrote[r][i].status = "COMPLETED") =>
         /\ Len(calls[r]) = 2
         /\ calls[r][1].op = "createCharge" /\ calls[r][1].outcome = "ok"
         /\ calls[r][2].op = "createTransfer" /\ calls[r][2].outcome = "ok"
         /\ Len(StepsNamed(r, "currency_conversion")) = 1
         /\ StepDone(r, "currency_conversion")
    /\ (\E i \in 1..Len(calls[r]) :
          calls[r][i].op = "createTransfer" /\ calls[r][i].outcome = "ok") =>
         CallsTo(r, "refundCharge") = <<>>

\* A step that calls createTransfer is taken for a payment none of whose
\* collections has failed or been reversed.
TransferOnlyOnCollected ==
  \A r \in Runs :
    Len(CallsTo(r, "createTransfer"))' > Len(CallsTo(r, "createTransfer"))
      => ~CollectionFailedOrReversed(pay[r])

\* C36: a payment is stored COMPLETED only by a run in which createCharge,
\* the conversion and createTransfer each succeeded once and no refund was
\* attempted; no run attempts a refund after a successful transfer; and
\* createTransfer is never called for a payment whose collection failed or
\* was reversed.
C36_CompletedOnlyWhenAllSucceeded ==
  []CompletedByFullRun /\ [][TransferOnlyOnCollected]_vars


\* C37: in every state a stored payment has a completion time exactly when
\* its status is COMPLETED, whichever writer stored the status
\* (processPayment's updatePaymentStatus, or the provider-webhook handlers
\* through PaymentService.updatePaymentStatus).
C37_CompletedAtIffCompleted ==
  \A p \in DOMAIN payments :
    payments[p].completedAt <=> payments[p].status = "COMPLETED"


\* The status_changed rows of each payment form a chain from PENDING to the
\* stored status.
AuditChain ==
  \A p \in DOMAIN payments :
    LET ev == StatusEventsOf(p)
    IN /\ \A i \in 1..Len(ev) :
            ev[i].oldStatus = IF i = 1 THEN "PENDING" ELSE ev[i - 1].newStatus
       /\ payments[p].status =
            IF ev = <<>> THEN "PENDING" ELSE Last(ev).newStatus

\* A step that changes a payment's status adds, in the same step, one
\* status_changed row saying so.
StatusChangeAudited ==
  \A p \in DOMAIN payments :
    payments'[p].status # payments[p].status =>
      /\ Len(StatusEventsOf(p)') = Len(StatusEventsOf(p)) + 1
      /\ Last(StatusEventsOf(p)').oldStatus = payments[p].status
      /\ Last(StatusEventsOf(p)').newStatus = payments'[p].status

\* C38: every change of Payment.status comes, in the same step, with one
\* status_changed PaymentEvent; the events of a payment form a chain
\* starting at PENDING, and the newStatus of the last one is the stored
\* status, whichever writer stored it and however the writes interleave.
C38_AuditTrailConsistent == []AuditChain /\ [][StatusChangeAudited]_vars


\* ------------------------------------------- properties: rate limiting ---
\* No client's counter, and no client's count of requests passed on within
\* one window, is over the limit.
RateWithinLimit ==
  \A ip \in ClientIps :
    /\ ipAttempts[ip].count <= maxAttempts
    /\ ratePassed[ip].n <= maxAttempts

\* What the limiter does with one request, told from the state before it.
RateStep ==
  LET ip == rateLast'.ip
      now == rateLast'.now
      was == ipAttempts[ip]
      inWindow == was # NoEntry /\ now <= was.resetTime
  IN /\ (inWindow /\ was.count >= maxAttempts) =>
          /\ rateLast'.status = 429
          /\ ipAttempts'[ip] = was
          /\ ratePassed'[ip] = ratePassed[ip]
     /\ (inWindow /\ was.count < maxAttempts) =>
          /\ rateLast'.status = PassedOn
          /\ ipAttempts'[ip] = [was EXCEPT !.count = @ + 1]
     /\ ~inWindow =>
          /\ rateLast'.status = PassedOn
          /\ ipAttempts'[ip] = [count |-> 1, resetTime |-> now + windowMs]
     /\ \A other \in ClientIps \ {ip} :
          /\ ratePassed'[other] = ratePassed[other]
          /\ \/ ipAttempts'[other] = ipAttempts[other]
             \/ /\ now > ipAttempts[other].resetTime
                /\ ipAttempts'[other] = NoEntry

\* C39: webhookRateLimit passes on at most 100 requests per client IP per
\* one-hour window: the counter of an IP is never over 100; a request
\* inside a window that has had its 100 gets 429, is not passed on and
\* leaves the window as it was; the first request after the window has
\* expired is passed on and starts a window with count 1; and a request
\* of one IP never adds to the count of another.
C39_HundredPerIpPerHour == []RateWithinLimit /\ [][RateStep]_vars

\* C39 witness: the first client filled its second window, begun when the
\* first had expired, and its next request, in the window's last
\* millisecond, got 429, while the second client has a count of its own.
C39_Witness ==
  /\ rateLast = [ip |-> "203.0.113.1", now |-> 2 * windowMs + 1,
                 status |-> 429]
  /\ ipAttempts["203.0.113.1"] =
       [count |-> maxAttempts, resetTime |-> 2 * windowMs + 1]
  /\ ipAttempts[OtherIp].count = 2

=============================================================================
